---------------------------- MODULE Spec2Model ----------------------------
(***************************************************************************)
(* One call of solveConsPortfolio, the one-period solver of the portfolio  *)
(* choice consumer (ConsPortfolioModel.py), as a state machine.            *)
(*                                                                         *)
(* Floating-point numbers are modelled as exact rationals <<n, d>> in      *)
(* lowest terms with d > 0, extended with the IEEE values that numpy       *)
(* produces instead of raising: NaN == <<0, 0>> (0.0/0.0) and the          *)
(* infinities <<1, 0>> and <<-1, 0>> (x/0.0).  Rounding is not modelled.   *)
(*                                                                         *)
(* The numerical integrals of the solver (calc_expectation, np.sum over    *)
(* the shock axis) take their values from the shock distributions and      *)
(* from the interpolants of solution_next.  The model does not rebuild     *)
(* those inputs: the record args.numerics holds the three discounted       *)
(* expectations they determine (one matrix over asset grid x share grid    *)
(* each), drawn from bounded sets when the call starts.                    *)
(***************************************************************************)
EXTENDS Integers, Sequences, FiniteSets, TLC

-----------------------------------------------------------------------------
(* Bounds of the model *)

\* largest number of points of the share grid (np.linspace(0, 1, ShareCount))
MaxShareCount == 3
\* largest number of points of aXtraGrid
MaxAXtraCount == 2
\* number of shock scenarios at which next period's functions are evaluated
ShockCount == 2

-----------------------------------------------------------------------------
(* float64 arithmetic on rationals, NaN and the infinities *)

Abs(n) == IF n < 0 THEN -n ELSE n

Sgn(n) == IF n < 0 THEN -1 ELSE IF n > 0 THEN 1 ELSE 0

RECURSIVE GCD(_, _)
GCD(a, b) == IF b = 0 THEN a ELSE GCD(b, a % b)

Norm(n, d) ==
    IF d = 0 THEN <<Sgn(n), 0>>
    ELSE LET g == GCD(Abs(n), Abs(d))
             s == IF d < 0 THEN -1 ELSE 1
         IN  <<(s * n) \div g, (s * d) \div g>>

R(n) == <<n, 1>>

NaN == <<0, 0>>

IsNaN(x) == x = NaN

IsFinite(x) == x[2] # 0

FNeg(x) == <<-x[1], x[2]>>

FAdd(x, y) ==
    IF IsNaN(x) \/ IsNaN(y) THEN NaN
    ELSE IF ~IsFinite(x) /\ ~IsFinite(y) THEN (IF x = y THEN x ELSE NaN)
    ELSE IF ~IsFinite(x) THEN x
    ELSE IF ~IsFinite(y) THEN y
    ELSE Norm(x[1] * y[2] + y[1] * x[2], x[2] * y[2])

FSub(x, y) == FAdd(x, FNeg(y))

FMul(x, y) ==
    IF IsNaN(x) \/ IsNaN(y) THEN NaN
    ELSE IF IsFinite(x) /\ IsFinite(y) THEN Norm(x[1] * y[1], x[2] * y[2])
    ELSE <<Sgn(x[1]) * Sgn(y[1]), 0>>

FDiv(x, y) ==
    IF IsNaN(x) \/ IsNaN(y) THEN NaN
    ELSE IF ~IsFinite(y) THEN (IF IsFinite(x) THEN R(0) ELSE NaN)
    ELSE IF ~IsFinite(x) THEN <<Sgn(x[1]) * (IF y[1] < 0 THEN -1 ELSE 1), 0>>
    ELSE Norm(x[1] * y[2], x[2] * y[1])

\* comparisons: every comparison with NaN is false
FLt(x, y) ==
    /\ ~IsNaN(x) /\ ~IsNaN(y)
    /\ IF IsFinite(x) /\ IsFinite(y) THEN x[1] * y[2] < y[1] * x[2]
       ELSE IF ~IsFinite(x) /\ ~IsFinite(y) THEN x[1] < y[1]
       ELSE IF ~IsFinite(x) THEN x[1] < 0
       ELSE y[1] > 0

FEq(x, y) == ~IsNaN(x) /\ ~IsNaN(y) /\ x = y

FLe(x, y) == FLt(x, y) \/ FEq(x, y)

FGt(x, y) == FLt(y, x)

FGe(x, y) == FLe(y, x)

RECURSIVE IPow(_, _)
IPow(b, e) == IF e = 0 THEN 1 ELSE b * IPow(b, e - 1)

\* the integer r >= 0 with r^k = n (n is a perfect k-th power wherever this is used)
IRoot(n, k) == CHOOSE r \in 0..n : IPow(r, k) = n

\* x ** (-k) for a positive integer k
FPowNeg(x, k) ==
    IF IsNaN(x) THEN NaN
    ELSE IF ~IsFinite(x) THEN R(0)
    ELSE Norm(IPow(x[2], k), IPow(x[1], k))

\* CRRA marginal utility c ** -CRRA
utilityP(c, CRRA) == FPowNeg(c, CRRA)

\* its inverse uP ** (-1/CRRA), exact on the CRRA-th powers
utilityP_inv(x, CRRA) ==
    IF IsNaN(x) THEN NaN
    ELSE IF ~IsFinite(x) THEN R(0)
    ELSE Norm(IRoot(x[2], CRRA), IRoot(Abs(x[1]), CRRA))

-----------------------------------------------------------------------------
(* Inputs of a call *)

Half == <<1, 2>>

\* np.linspace(0.0, 1.0, ShareCount)
ShareGridOf(ShareCount) ==
    [k \in 1..ShareCount |-> IF ShareCount = 1 THEN R(0) ELSE Norm(k - 1, ShareCount - 1)]

\* an increasing grid of positive end-of-period assets above the minimum
aXtraGridOf(n) == [i \in 1..n |-> R(i)]

\* the transitory shocks of the income distribution, one per scenario
TranShkSets == {[k \in 1..ShockCount |-> R(k - 1)], [k \in 1..ShockCount |-> R(k)]}

FMin(seq) == CHOOSE x \in {seq[k] : k \in DOMAIN seq} :
                 \A k \in DOMAIN seq : FLe(x, seq[k])

\* the nine function slots a solver reads from next period's record; each slot
\* is tabulated at the shock scenarios (the points mNrm_next, Share_next)
SolutionNextSet ==
    {[vPfuncAdj   |-> [k \in 1..ShockCount |-> R(t + 2 * k)],
      dvdmFuncFxd |-> [k \in 1..ShockCount |-> R(t + 3 * k + 1)],
      dvdsFuncFxd |-> [k \in 1..ShockCount |-> R(k - t)],
      vFuncAdj    |-> [k \in 1..ShockCount |-> R(-(t + k))],
      vFuncFxd    |-> [k \in 1..ShockCount |-> R(-(t + 2 * k + 1))]] : t \in 1..2}

\* number of asset-grid rows: aXtraGrid, plus the zero point when the income
\* floor is positive
RowsOf(aXtraGrid, TranShks) ==
    Len(aXtraGrid) + (IF FEq(FMin(TranShks), R(0)) THEN 0 ELSE 1)

FOCVals == {R(-2), R(-1), R(0), R(1), R(2)}

vVals == {R(-3), R(-2), R(-1)}

CRRAVals == {2}

\* the shape of EndOfPrddvda across shares, with the share limit of the call
KindAndLimit == {<<"up", R(0)>>, <<"down", <<3, 4>>>>}

\* typical rows of the share condition: it falls through zero in the first
\* interval ("cross"), stays positive ("top") or stays negative ("bottom")
TypicalKinds == {"cross", "top", "bottom"}

TypicalFOC(S, t) ==
    [j \in 1..S |-> IF t = "top" THEN R(1)
                    ELSE IF t = "bottom" THEN R(-1)
                    ELSE IF j = 1 THEN R(1) ELSE R(-1)]

\* a typical row of end-of-period value: it peaks at the second share
Typicalv(S) == [j \in 1..S |-> IF j = 2 THEN R(-1) ELSE R(-2)]

\* consumption-equivalent levels behind EndOfPrddvda: rising in assets at
\* whatever shares two asset points are compared, and rising ("up") or falling
\* ("down") in the share
cLevel(kind, i, j, S) ==
    IF kind = "up" THEN R((i - 1) * S + j) ELSE R(i * S + 1 - j)

dvdaMatrix(kind, N, S, CRRA) ==
    [i \in 1..N |-> [j \in 1..S |-> utilityP(cLevel(kind, i, j, S), CRRA)]]

\* a matrix of typical rows with one arbitrary row at position p (the first
\* or the last asset point)
Probe(N, p, row, typical) == [i \in 1..N |-> IF i = p THEN row ELSE typical]

Numerics(kind, N, S, CRRA, FOCm, vm) ==
    [EndOfPrddvda |-> dvdaMatrix(kind, N, S, CRRA),
     EndOfPrddvds |-> FOCm,
     EndOfPrdv    |-> vm]

MkArgs(b, d, vf, ap, ind, ts, sl, S, n, crra, sn, num) ==
    [BoroCnstArt |-> b, DiscreteShareBool |-> d, vFuncBool |-> vf,
     AdjustPrb |-> ap, IndepDstnBool |-> ind, TranShks |-> ts,
     ShareLimit |-> sl, ShareGrid |-> ShareGridOf(S),
     aXtraGrid |-> aXtraGridOf(n), CRRA |-> crra,
     solution_next |-> sn, numerics |-> num]

\* a call that varies every flag of the configuration, on typical numerics
ConfigCall(a) ==
    \E b \in {R(0), Half}, d \in BOOLEAN, vf \in BOOLEAN, ap \in {Half, R(1)},
       ind \in BOOLEAN, ts \in TranShkSets, S \in 2..MaxShareCount,
       n \in 1..MaxAXtraCount, crra \in CRRAVals, sn \in SolutionNextSet :
        LET N == RowsOf(aXtraGridOf(n), ts)
        IN  a = MkArgs(b, d, vf, ap, ind, ts, <<3, 4>>, S, n, crra, sn,
                       Numerics("up", N, S, crra,
                                [i \in 1..N |-> TypicalFOC(S, "cross")],
                                [i \in 1..N |-> Typicalv(S)]))

\* a continuous-share call with an arbitrary row of first-order-condition values
ContinuousCall(a) ==
    \E ts \in TranShkSets, S \in 2..MaxShareCount, n \in 1..MaxAXtraCount :
        LET N == RowsOf(aXtraGridOf(n), ts)
        IN  \E p \in {1, N}, row \in [1..S -> FOCVals], ks \in KindAndLimit,
               crra \in CRRAVals, t \in TypicalKinds :
                a = MkArgs(R(0), FALSE, FALSE, R(1), TRUE, ts, ks[2], S, n, crra,
                           CHOOSE sn \in SolutionNextSet : TRUE,
                           Numerics(ks[1], N, S, crra,
                                    Probe(N, p, row, TypicalFOC(S, t)),
                                    [i \in 1..N |-> Typicalv(S)]))

\* a discrete-share call with an arbitrary row of end-of-period values
DiscreteCall(a) ==
    \E ts \in TranShkSets, S \in 2..MaxShareCount, n \in 1..MaxAXtraCount :
        LET N == RowsOf(aXtraGridOf(n), ts)
        IN  \E p \in {1, N}, row \in [1..S -> vVals], kind \in {"up", "down"},
               crra \in CRRAVals :
                a = MkArgs(R(0), TRUE, TRUE, R(1), TRUE, ts, <<3, 4>>, S, n, crra,
                           CHOOSE sn \in SolutionNextSet : TRUE,
                           Numerics(kind, N, S, crra,
                                    [i \in 1..N |-> TypicalFOC(S, "cross")],
                                    Probe(N, p, row, Typicalv(S))))

-----------------------------------------------------------------------------
(* State of one call *)

VARIABLES
    args,               \* the arguments of the call
    pc,                 \* position in solveConsPortfolio
    error,              \* the exception raised, "none" while there is none
    reads,              \* the arguments the call has read so far
    evaluated,          \* the function slots of solution_next evaluated so far
    nxt,                \* dvdm_next, dvds_next, v_next per shock scenario
    zero_bound,
    aNrmGrid,
    EndOfPrddvda,
    EndOfPrddvdaNvrs,
    EndOfPrdv,
    EndOfPrddvds,
    constrained_top,
    constrained_bot,
    Share_now,
    cNrmAdj_now,
    idx,                \* per asset point, the bracket the search selected (0: none)
    j,                  \* loop variable of the crossing search
    mNrmAdj_now,
    save_points,
    ShareFuncAdj_now,
    cFuncAdj_now,
    fxd,                \* cFuncFxd_by_Share, dvdsFuncFxd_by_Share
    vfuncs,             \* vFuncAdj_now, vFuncFxd_now
    self,               \* the PortfolioConsumerType instance
    record,             \* the PortfolioSolution last constructed directly
    given,              \* the function slots that construction was passed
    which_agents,       \* the agents the last sim_birth was called for
    held,               \* per array name of the call, the buffer it refers to
    written,            \* the buffers the call has assigned into in place
    solution_now        \* the returned PortfolioSolution, NoRecord until then

inputs == <<args>>

trace == <<reads, evaluated, nxt>>

grids == <<zero_bound, aNrmGrid, EndOfPrddvda, EndOfPrddvdaNvrs, EndOfPrdv, EndOfPrddvds>>

search == <<constrained_top, constrained_bot, Share_now, cNrmAdj_now, idx, j>>

memory == <<held, written>>

made == <<record, given>>

agent == <<self, record, given, which_agents>>

built == <<mNrmAdj_now, save_points, ShareFuncAdj_now, cFuncAdj_now, fxd, vfuncs, solution_now>>

vars == <<args, pc, error, reads, evaluated, nxt, zero_bound, aNrmGrid,
          EndOfPrddvda, EndOfPrddvdaNvrs, EndOfPrdv, EndOfPrddvds,
          constrained_top, constrained_bot, Share_now, cNrmAdj_now, idx, j,
          mNrmAdj_now, save_points, ShareFuncAdj_now, cFuncAdj_now, fxd, vfuncs,
          held, written, self, record, given, which_agents, solution_now>>

NoRecord == [returned |-> FALSE]

\* the arrays the caller owns
InputBuffers == {"aXtraGrid", "ShareGrid", "ShockDstn", "IncShkDstn", "RiskyDstn", "solution_next"}

\* no array of the call is bound yet
NothingHeld ==
    [aNrmGrid |-> "unbound", Share_now |-> "unbound", cNrmAdj_now |-> "unbound",
     constrained_top |-> "unbound", save_a |-> "unbound", save_share_adj |-> "unbound",
     save_share_grid |-> "unbound"]

\* an expression that makes a new array (np.insert, np.zeros_like, a
\* comparison, indexing with an index array): the result is a buffer of its own
NewArray(name) == name

deepcopyAliases(buffer, name) == buffer

\* copy.deepcopy: a buffer of its own with the contents of the argument
deepcopy(buffer, name) == NewArray(name)

None == [kind |-> "None"]

NullFunc == [kind |-> "NullFunc"]

-----------------------------------------------------------------------------
(* The consumer type, lines 148-282 *)

T_cycle == 2

\* the limiting shares a return distribution can imply: the bounded minimiser
\* of lines 270 and 280 lies in [0, 1]
SharePFVals == {<<3, 4>>, R(1)}

\* no instance
NoAgent == [constructed |-> FALSE]

\* AgentType.add_to_time_inv: the name joins the time-invariant solver inputs
add_to_time_inv(a, name) == [a EXCEPT !.time_inv = @ \cup {name}]

\* AgentType.add_to_time_vary: the name joins the time-varying solver inputs
add_to_time_vary(a, name) == [a EXCEPT !.time_vary = @ \cup {name}]

update_ShareGridUnregistered(a) == [a EXCEPT !.ShareGrid = ShareGridOf(a.ShareCount)]

\* lines 233-247
update_ShareGrid(a) ==
    add_to_time_inv([a EXCEPT !.ShareGrid = ShareGridOf(a.ShareCount)], "ShareGrid")

\* lines 249-282; SharePF is the bounded minimiser for the instance's return
\* distribution and CRRA
update_ShareLimit(a) ==
    IF "RiskyDstn" \in a.time_vary
    THEN add_to_time_vary([a EXCEPT !.ShareLimit = [t \in 1..T_cycle |-> a.SharePF]],
                          "ShareLimit")
    ELSE add_to_time_inv([a EXCEPT !.ShareLimit = a.SharePF], "ShareLimit")

\* lines 181-185
update(a) == update_ShareLimit(update_ShareGrid(a))

\* __init__, lines 163-175, with the class attribute time_inv_ of lines 160-161
PortfolioConsumerType(ShareCount, CRRA, RiskyVaries, SharePF) ==
    update([constructed       |-> TRUE,
            ShareCount        |-> ShareCount,
            CRRA              |-> CRRA,
            SharePF           |-> SharePF,
            ShareGrid         |-> None,
            ShareLimit        |-> None,
            time_inv          |-> {"AdjustPrb", "DiscreteShareBool"},
            time_vary         |-> IF RiskyVaries THEN {"RiskyDstn"} ELSE {},
            solution_terminal |-> None,
            solution          |-> None,
            t_cycle           |-> None,
            state_now         |-> None,
            shocks            |-> None,
            controls          |-> None,
            used              |-> None])

\* the arguments held while no call of the solver is in progress
NoCall ==
    LET ts == [k \in 1..ShockCount |-> R(k)]
        N  == RowsOf(aXtraGridOf(1), ts)
    IN  MkArgs(R(0), FALSE, FALSE, R(1), TRUE, ts, <<3, 4>>, 2, 1, 2,
               CHOOSE sn \in SolutionNextSet : TRUE,
               Numerics("up", N, 2, 2, [i \in 1..N |-> TypicalFOC(2, "cross")],
                        [i \in 1..N |-> Typicalv(2)]))

\* the variables of a call before its first step
NotStarted ==
    /\ error = "none"
    /\ reads = {}
    /\ evaluated = {}
    /\ nxt = [dvdm_next |-> <<>>, dvds_next |-> <<>>, v_next |-> <<>>]
    /\ zero_bound = FALSE
    /\ aNrmGrid = <<>>
    /\ EndOfPrddvda = <<>>
    /\ EndOfPrddvdaNvrs = <<>>
    /\ EndOfPrdv = <<>>
    /\ EndOfPrddvds = <<>>
    /\ constrained_top = <<>>
    /\ constrained_bot = <<>>
    /\ Share_now = <<>>
    /\ cNrmAdj_now = <<>>
    /\ idx = <<>>
    /\ j = 0
    /\ mNrmAdj_now = <<>>
    /\ save_points = <<>>
    /\ ShareFuncAdj_now = None
    /\ cFuncAdj_now = None
    /\ fxd = <<>>
    /\ vfuncs = <<>>
    /\ held = NothingHeld
    /\ written = {}
    /\ solution_now = NoRecord


-----------------------------------------------------------------------------
(* Configuration checks, lines 471-481 *)

\* line 474
BoroCnstArtError == "ValueError: PortfolioConsumerType must have BoroCnstArt=0.0!"

\* lines 479-481
DiscreteError ==
    "ValueError: PortfolioConsumerType requires vFuncBool to be True when DiscreteShareBool is True!"

BoroCnstArtRejectedIfNegative(BoroCnstArt) == FLt(BoroCnstArt, R(0))

\* if BoroCnstArt != 0.0
BoroCnstArtRejected(BoroCnstArt) == ~FEq(BoroCnstArt, R(0))

DiscreteRejectedWhatevervFunc(DiscreteShareBool, vFuncBool) == DiscreteShareBool

\* if DiscreteShareBool and (not vFuncBool)
DiscreteRejected(DiscreteShareBool, vFuncBool) == DiscreteShareBool /\ ~vFuncBool

RaiseBoroCnstArt ==
    /\ pc = "start"
    /\ UNCHANGED memory
    /\ BoroCnstArtRejected(args.BoroCnstArt)
    /\ error' = BoroCnstArtError
    /\ pc' = "raised"
    /\ UNCHANGED <<inputs, agent, trace, grids, search, built>>

RaiseDiscreteWithoutvFunc ==
    /\ pc = "start"
    /\ UNCHANGED memory
    /\ ~BoroCnstArtRejected(args.BoroCnstArt)
    /\ DiscreteRejected(args.DiscreteShareBool, args.vFuncBool)
    /\ error' = DiscreteError
    /\ pc' = "raised"
    /\ UNCHANGED <<inputs, agent, trace, grids, search, built>>

\* lines 483-495: the utility lambdas and the five functions of solution_next
Unpack ==
    /\ pc = "start"
    /\ UNCHANGED memory
    /\ ~BoroCnstArtRejected(args.BoroCnstArt)
    /\ ~DiscreteRejected(args.DiscreteShareBool, args.vFuncBool)
    /\ reads' = reads \cup {"solution_next"}
    /\ pc' = "unpacked"
    /\ UNCHANGED <<inputs, agent, error, evaluated, nxt, grids, search, built>>

-----------------------------------------------------------------------------
(* Expectations over the shocks, lines 497-767 *)

\* zero_bound = np.min(TranShks_next) == 0.0
ZeroBoundOf(TranShks) == FEq(FMin(TranShks), R(0))

\* np.insert(seq, 0, x)
Insert0(seq, x) == <<x>> \o seq

aNrmGridOfZeroWhenBound(aXtraGrid, zb) == IF zb THEN Insert0(aXtraGrid, R(0)) ELSE aXtraGrid

\* aNrmGrid: aXtraGrid itself, or aXtraGrid with an asset point at exactly zero
aNrmGridOf(aXtraGrid, zb) == IF zb THEN aXtraGrid ELSE Insert0(aXtraGrid, R(0))

FxdMattersAtOne(AdjustPrb) == FLe(AdjustPrb, R(1))

\* the test `if AdjustPrb < 1.0` that guards every evaluation of a Fxd function
FxdMatters(AdjustPrb) == FLt(AdjustPrb, R(1))

FMax(x, y) == IF FLt(x, y) THEN y ELSE x

CombineByMax(AdjustPrb, adj, fxdval) == FMax(adj, fxdval)

\* the blend AdjustPrb * Adj + (1.0 - AdjustPrb) * Fxd
Combine(AdjustPrb, adj, fxdval) ==
    FAdd(FMul(AdjustPrb, adj), FMul(FSub(R(1), AdjustPrb), fxdval))

\* independent path, dvdb_dist: lines 532-543
dvdb_dist(sn, AdjustPrb, k) ==
    LET dvdmAdj_next == sn.vPfuncAdj[k]
    IN  IF FxdMatters(AdjustPrb)
        THEN Combine(AdjustPrb, dvdmAdj_next, sn.dvdmFuncFxd[k])
        ELSE dvdmAdj_next

\* independent path, dvds_dist: lines 546-557
dvds_dist(sn, AdjustPrb, k) ==
    LET dvdsAdj_next == R(0)
    IN  IF FxdMatters(AdjustPrb)
        THEN Combine(AdjustPrb, dvdsAdj_next, sn.dvdsFuncFxd[k])
        ELSE dvdsAdj_next

\* independent path, v_intermed_dist: lines 560-571
v_intermed_dist(sn, AdjustPrb, k) ==
    LET vAdj_next == sn.vFuncAdj[k]
    IN  IF FxdMatters(AdjustPrb)
        THEN Combine(AdjustPrb, vAdj_next, sn.vFuncFxd[k])
        ELSE vAdj_next

\* the slots of solution_next the independent path evaluates: dvdb_dist and
\* dvds_dist are integrated always, v_intermed_dist only under vFuncBool
EvaluatedIndep(AdjustPrb, vFuncBool) ==
    {"vPfuncAdj"}
    \cup (IF FxdMatters(AdjustPrb) THEN {"dvdmFuncFxd", "dvdsFuncFxd"} ELSE {})
    \cup (IF vFuncBool THEN {"vFuncAdj"} ELSE {})
    \cup (IF vFuncBool /\ FxdMatters(AdjustPrb) THEN {"vFuncFxd"} ELSE {})

\* joint path, lines 710-716
dvdm_next_joint(sn, AdjustPrb, k) ==
    LET dvdmAdj_next == sn.vPfuncAdj[k]
    IN  IF FxdMatters(AdjustPrb)
        THEN Combine(AdjustPrb, dvdmAdj_next, sn.dvdmFuncFxd[k])
        ELSE dvdmAdj_next

\* joint path, lines 720-726
dvds_next_joint(sn, AdjustPrb, k) ==
    LET dvdsAdj_next == R(0)
    IN  IF FxdMatters(AdjustPrb)
        THEN Combine(AdjustPrb, dvdsAdj_next, sn.dvdsFuncFxd[k])
        ELSE dvdsAdj_next

\* joint path, lines 729-737
v_next_joint(sn, AdjustPrb, vFuncBool, k) ==
    IF vFuncBool
    THEN LET vAdj_next == sn.vFuncAdj[k]
         IN  IF FxdMatters(AdjustPrb)
             THEN Combine(AdjustPrb, vAdj_next, sn.vFuncFxd[k])
             ELSE vAdj_next
    ELSE R(0)

EvaluatedJointWithValue(AdjustPrb, vFuncBool) ==
    {"vPfuncAdj", "vFuncAdj"}
    \cup (IF FxdMatters(AdjustPrb) THEN {"dvdmFuncFxd", "dvdsFuncFxd", "vFuncFxd"} ELSE {})

\* the slots of solution_next the joint path evaluates, lines 710-737
EvaluatedJoint(AdjustPrb, vFuncBool) ==
    {"vPfuncAdj"}
    \cup (IF FxdMatters(AdjustPrb) THEN {"dvdmFuncFxd", "dvdsFuncFxd"} ELSE {})
    \cup (IF vFuncBool THEN {"vFuncAdj"} ELSE {})
    \cup (IF vFuncBool /\ FxdMatters(AdjustPrb) THEN {"vFuncFxd"} ELSE {})

\* uPinv applied to every entry
NvrsOf(m, CRRA) == [i \in DOMAIN m |-> [c \in DOMAIN m[i] |-> utilityP_inv(m[i][c], CRRA)]]

\* what both paths leave behind: the grid and the end-of-period arrays
Expectations ==
    /\ zero_bound' = ZeroBoundOf(args.TranShks)
    /\ aNrmGrid' = aNrmGridOf(args.aXtraGrid, ZeroBoundOf(args.TranShks))
    /\ EndOfPrddvda' = args.numerics.EndOfPrddvda
    /\ EndOfPrddvdaNvrs' = NvrsOf(args.numerics.EndOfPrddvda, args.CRRA)
    /\ EndOfPrdv' = IF args.vFuncBool THEN args.numerics.EndOfPrdv ELSE <<>>
    /\ EndOfPrddvds' = args.numerics.EndOfPrddvds
    /\ held' = [held EXCEPT !.aNrmGrid = IF ZeroBoundOf(args.TranShks)
                                         THEN "aXtraGrid"
                                         ELSE NewArray("aNrmGrid")]
    /\ UNCHANGED written

\* lines 498-663
ExpectIndependent ==
    /\ pc = "unpacked"
    /\ args.IndepDstnBool
    /\ reads' = reads \cup {"IncShkDstn", "RiskyDstn", "aXtraGrid", "ShareGrid"}
    /\ evaluated' = EvaluatedIndep(args.AdjustPrb, args.vFuncBool)
    /\ nxt' = [dvdm_next |-> [k \in 1..ShockCount |->
                                dvdb_dist(args.solution_next, args.AdjustPrb, k)],
               dvds_next |-> [k \in 1..ShockCount |->
                                dvds_dist(args.solution_next, args.AdjustPrb, k)],
               v_next    |-> IF args.vFuncBool
                             THEN [k \in 1..ShockCount |->
                                     v_intermed_dist(args.solution_next, args.AdjustPrb, k)]
                             ELSE <<>>]
    /\ Expectations
    /\ pc' = "expected"
    /\ UNCHANGED <<inputs, agent, error, search, built>>

\* lines 665-767
ExpectJoint ==
    /\ pc = "unpacked"
    /\ ~args.IndepDstnBool
    /\ reads' = reads \cup {"ShockDstn", "aXtraGrid", "ShareGrid"}
    /\ evaluated' = EvaluatedJoint(args.AdjustPrb, args.vFuncBool)
    /\ nxt' = [dvdm_next |-> [k \in 1..ShockCount |->
                                dvdm_next_joint(args.solution_next, args.AdjustPrb, k)],
               dvds_next |-> [k \in 1..ShockCount |->
                                dvds_next_joint(args.solution_next, args.AdjustPrb, k)],
               v_next    |-> [k \in 1..ShockCount |->
                                v_next_joint(args.solution_next, args.AdjustPrb,
                                             args.vFuncBool, k)]]
    /\ Expectations
    /\ pc' = "expected"
    /\ UNCHANGED <<inputs, agent, error, search, built>>

-----------------------------------------------------------------------------
(* Choice of the risky share, lines 769-815 *)

Last(seq) == seq[Len(seq)]

ArgMaxLast(row) ==
    CHOOSE k \in DOMAIN row :
        /\ \A l \in DOMAIN row : FLe(row[l], row[k])
        /\ \A l \in DOMAIN row : l > k => FLt(row[l], row[k])

\* np.argmax: the lowest index that holds the largest value
ArgMax(row) ==
    CHOOSE k \in DOMAIN row :
        /\ \A l \in DOMAIN row : FLe(row[l], row[k])
        /\ \A l \in DOMAIN row : l < k => FLt(row[l], row[k])

\* lines 771-774
DiscreteChoice(v) == [i \in DOMAIN v |-> ArgMax(v[i])]

ForceShareNever(share, zb) == share

\* lines 775-778 and 791-794: at aNrm = 0 the share is set to 1.0 and
\* consumption is read from the last share column
ForceShare(share, zb) ==
    IF zb THEN share ELSE [share EXCEPT ![1] = R(1)]

ForceConsumption(c, Nvrs, zb) ==
    IF zb THEN c ELSE [c EXCEPT ![1] = Last(Nvrs[1])]

\* lines 770-778
DiscreteShare ==
    /\ pc = "expected"
    /\ args.DiscreteShareBool
    /\ LET opt_idx == DiscreteChoice(EndOfPrdv)
       IN  /\ idx' = opt_idx
           /\ Share_now' = ForceShare([i \in DOMAIN opt_idx |-> args.ShareGrid[opt_idx[i]]],
                                      zero_bound)
           /\ cNrmAdj_now' = ForceConsumption(
                                 [i \in DOMAIN opt_idx |-> EndOfPrddvdaNvrs[i][opt_idx[i]]],
                                 EndOfPrddvdaNvrs, zero_bound)
    /\ held' = [held EXCEPT !.Share_now = NewArray("Share_now"),
                             !.cNrmAdj_now = NewArray("cNrmAdj_now")]
    /\ written' = written \cup (IF zero_bound THEN {}
                                 ELSE {held'.Share_now, held'.cNrmAdj_now})
    /\ pc' = "chosen"
    /\ UNCHANGED <<inputs, agent, error, trace, grids, constrained_top, constrained_bot, j, built>>

\* line 787: constrained_top = FOC_s[:, -1] > 0.0
ConstrainedTop(FOC_s) == [i \in DOMAIN FOC_s |-> FGt(Last(FOC_s[i]), R(0))]

\* line 789: constrained_bot = FOC_s[:, 0] < 0.0
ConstrainedBot(FOC_s) == [i \in DOMAIN FOC_s |-> FLt(FOC_s[i][1], R(0))]

\* line 796: constrained_top[0] = True
MarkForced(ct, zb) == IF zb THEN ct ELSE [ct EXCEPT ![1] = TRUE]

ClipConsumptionLastColumn(c, ct, cb, Nvrs) ==
    [i \in DOMAIN c |-> IF ct[i] \/ cb[i] THEN Last(Nvrs[i]) ELSE c[i]]

\* lines 799-800: consumption when share-constrained, top first, then bottom
ClipConsumption(c, ct, cb, Nvrs) ==
    LET c_top == [i \in DOMAIN c |-> IF ct[i] THEN Last(Nvrs[i]) ELSE c[i]]
    IN  [i \in DOMAIN c |-> IF cb[i] THEN Nvrs[i][1] ELSE c_top[i]]

\* lines 782-800
ContinuousClip ==
    /\ pc = "expected"
    /\ ~args.DiscreteShareBool
    /\ LET FOC_s == EndOfPrddvds
           zeros == [i \in DOMAIN aNrmGrid |-> R(0)]
           top0  == ConstrainedTop(FOC_s)
           bot   == ConstrainedBot(FOC_s)
           top   == MarkForced(top0, zero_bound)
       IN  /\ constrained_top' = top
           /\ constrained_bot' = bot
           /\ Share_now' = ForceShare([i \in DOMAIN zeros |->
                                         IF top0[i] THEN R(1) ELSE zeros[i]], zero_bound)
           /\ cNrmAdj_now' = ClipConsumption(
                                 ForceConsumption(zeros, EndOfPrddvdaNvrs, zero_bound),
                                 top, bot, EndOfPrddvdaNvrs)
           /\ idx' = [i \in DOMAIN zeros |-> 0]
    /\ held' = [held EXCEPT !.Share_now = NewArray("Share_now"),
                             !.cNrmAdj_now = NewArray("cNrmAdj_now"),
                             !.constrained_top = NewArray("constrained_top")]
    /\ written' = written \cup {held'.Share_now, held'.cNrmAdj_now}
                           \cup (IF zero_bound THEN {} ELSE {held'.constrained_top})
    /\ j' = 1
    /\ pc' = "search"
    /\ UNCHANGED <<inputs, agent, error, trace, grids, built>>

\* line 806 when crossing[j, :] holds no True: np.argwhere returns an empty
\* array and [0] fails
SearchError == "IndexError: index 0 is out of bounds for axis 0 with size 0"

CrossingStrict(row, k) == FLt(row[k + 1], R(0)) /\ FGt(row[k], R(0))

\* line 803: crossing[j, k] for the adjacent share-grid points k, k+1
Crossing(row, k) == FLe(row[k + 1], R(0)) /\ FGe(row[k], R(0))

Crossings(row) == {k \in 1..(Len(row) - 1) : Crossing(row, k)}

\* line 806: np.argwhere(crossing[j, :])[0][0]
FirstCrossing(row) == CHOOSE k \in Crossings(row) : \A l \in Crossings(row) : k <= l

AlphaFromTop(top_f, bot_f) == FDiv(top_f, FSub(top_f, bot_f))

\* line 813
Alpha(top_f, bot_f) == FSub(R(1), FDiv(top_f, FSub(top_f, bot_f)))

\* lines 814-815
Blend(alpha, bot, top) == FAdd(FMul(FSub(R(1), alpha), bot), FMul(alpha, top))

\* lines 804-815, one pass of the loop body
SearchRow ==
    /\ pc = "search"
    /\ j <= Len(aNrmGrid)
    /\ IF constrained_top[j] \/ constrained_bot[j]
       THEN /\ pc' = IF j = Len(aNrmGrid) THEN "chosen" ELSE "search"
            /\ j' = j + 1
            /\ UNCHANGED <<error, Share_now, cNrmAdj_now, idx>>
       ELSE IF Crossings(EndOfPrddvds[j]) = {}
       THEN /\ error' = SearchError
            /\ pc' = "raised"
            /\ UNCHANGED <<Share_now, cNrmAdj_now, idx, j>>
       ELSE LET FOC_s == EndOfPrddvds
                i     == FirstCrossing(FOC_s[j])
                bot_s == args.ShareGrid[i]
                top_s == args.ShareGrid[i + 1]
                bot_f == FOC_s[j][i]
                top_f == FOC_s[j][i + 1]
                bot_c == EndOfPrddvdaNvrs[j][i]
                top_c == EndOfPrddvdaNvrs[j][i + 1]
                alpha == Alpha(top_f, bot_f)
            IN  /\ idx' = [idx EXCEPT ![j] = i]
                /\ Share_now' = [Share_now EXCEPT ![j] = Blend(alpha, bot_s, top_s)]
                /\ cNrmAdj_now' = [cNrmAdj_now EXCEPT ![j] = Blend(alpha, bot_c, top_c)]
                /\ pc' = IF j = Len(aNrmGrid) THEN "chosen" ELSE "search"
                /\ j' = j + 1
                /\ UNCHANGED error
    /\ written' = written \cup (IF constrained_top[j] \/ constrained_bot[j]
                                    \/ Crossings(EndOfPrddvds[j]) = {}
                                 THEN {}
                                 ELSE {held.Share_now, held.cNrmAdj_now})
    /\ UNCHANGED <<inputs, agent, trace, grids, constrained_top, constrained_bot, built, held>>

-----------------------------------------------------------------------------
(* Endogenous grid and the functions of the adjusting agent, lines 817-856 *)

uPOfTransposed(m, CRRA) == [c \in DOMAIN m[1] |-> [i \in DOMAIN m |-> utilityP(m[i][c], CRRA)]]

\* uP applied to every entry
uPOf(m, CRRA) == [i \in DOMAIN m |-> [c \in DOMAIN m[i] |-> utilityP(m[i][c], CRRA)]]

\* lines 818-828
EndogenousGrid ==
    /\ pc = "chosen"
    /\ mNrmAdj_now' = [i \in DOMAIN aNrmGrid |-> FAdd(aNrmGrid[i], cNrmAdj_now[i])]
    /\ save_points' =
         [a            |-> aNrmGrid,
          eop_dvda_adj |-> [i \in DOMAIN cNrmAdj_now |->
                              utilityP(cNrmAdj_now[i], args.CRRA)],
          share_adj    |-> Share_now,
          share_grid   |-> args.ShareGrid,
          eop_dvda_fxd |-> uPOf(EndOfPrddvda, args.CRRA)]
    /\ held' = [held EXCEPT !.save_a = deepcopy(held.aNrmGrid, "save_points.a"),
                             !.save_share_adj = deepcopy(held.Share_now, "save_points.share_adj"),
                             !.save_share_grid = deepcopy("ShareGrid", "save_points.share_grid")]
    /\ UNCHANGED written
    /\ pc' = "gridded"
    /\ UNCHANGED <<inputs, agent, error, trace, grids, search, ShareFuncAdj_now,
                   cFuncAdj_now, fxd, vfuncs, solution_now>>

\* the factor 1.0 + 1e-12 of line 833, with a step the integers can hold
OnePlusEps == <<1001, 1000>>

\* (np.transpose(np.vstack((u, v)))).flatten(): u[0], v[0], u[1], v[1], ...
Interleave(u, v) ==
    [k \in 1..(2 * Len(u)) |-> IF k % 2 = 1 THEN u[(k + 1) \div 2] ELSE v[k \div 2]]

\* HARK.interpolation.LinearInterp(x_list, y_list, intercept_limit, slope_limit)
LinearInterp(x_list, y_list, limits) ==
    [kind |-> "LinearInterp", x_list |-> x_list, y_list |-> y_list, limits |-> limits]

\* lines 832-837
ShareFuncDiscrete(m, share) ==
    LET mNrmAdj_mid  == [i \in 1..(Len(m) - 1) |-> FDiv(FAdd(m[i + 1], m[i]), R(2))]
        mNrmAdj_plus == [i \in DOMAIN mNrmAdj_mid |-> FMul(mNrmAdj_mid[i], OnePlusEps)]
        mNrmAdj_comb == Insert0(Interleave(mNrmAdj_mid, mNrmAdj_plus), R(0)) \o <<Last(m)>>
        Share_comb   == Interleave(share, share)
    IN  LinearInterp(mNrmAdj_comb, Share_comb, <<>>)

\* what a LinearInterp does with its knots: i = max(searchsorted(x_list[:-1], x), 1),
\* alpha = (x - x_list[i-1]) / (x_list[i] - x_list[i-1]),
\* y = (1 - alpha) * y_list[i-1] + alpha * y_list[i], for x up to the last knot
EvalLinearInterp(f, x) ==
    LET n     == Len(f.x_list)
        below == Cardinality({k \in 1..(n - 1) : FLt(f.x_list[k], x)})
        i     == (IF below < 1 THEN 1 ELSE below) + 1
        alpha == FDiv(FSub(x, f.x_list[i - 1]), FSub(f.x_list[i], f.x_list[i - 1]))
    IN  FAdd(FMul(FSub(R(1), alpha), f.y_list[i - 1]), FMul(alpha, f.y_list[i]))

\* the line <<intercept, slope>> a LinearInterp approaches as x grows: the
\* limits it was given, else the extension of its last segment
Asymptote(f) ==
    IF f.limits # <<>> THEN f.limits
    ELSE LET n     == Len(f.x_list)
             slope == FDiv(FSub(f.y_list[n], f.y_list[n - 1]),
                           FSub(f.x_list[n], f.x_list[n - 1]))
         IN  <<FSub(f.y_list[n], FMul(slope, f.x_list[n])), slope>>

ShareLimitsNone(ShareLimit) == <<>>

\* lines 847-848: intercept_limit=ShareLimit, slope_limit=0.0
ShareLimits(ShareLimit) == <<ShareLimit, R(0)>>

\* lines 839-842
ShareLowerBound(zb, ShareLimit) == IF zb THEN ShareLimit ELSE R(1)

\* lines 830-856
BuildAdjFuncs ==
    /\ pc = "gridded"
    /\ UNCHANGED memory
    /\ IF args.DiscreteShareBool
       THEN /\ ShareFuncAdj_now' = ShareFuncDiscrete(mNrmAdj_now, Share_now)
            /\ UNCHANGED Share_now
       ELSE /\ Share_now' = Insert0(Share_now, ShareLowerBound(zero_bound, args.ShareLimit))
            /\ ShareFuncAdj_now' = LinearInterp(Insert0(mNrmAdj_now, R(0)), Share_now',
                                                ShareLimits(args.ShareLimit))
    /\ cNrmAdj_now' = Insert0(cNrmAdj_now, R(0))
    /\ cFuncAdj_now' = LinearInterp(Insert0(mNrmAdj_now, R(0)), cNrmAdj_now', <<>>)
    /\ pc' = "adj built"
    /\ UNCHANGED <<inputs, agent, error, trace, grids, constrained_top, constrained_bot, idx, j,
                   mNrmAdj_now, save_points, fxd, vfuncs, solution_now>>

-----------------------------------------------------------------------------
(* Functions of the agent with a fixed share, value functions, the record *)

Column(m, c) == [i \in DOMAIN m |-> m[i][c]]

cFuncFxdColumnFirst(a, Nvrs, c) ==
    LET cNrmFxd_temp == Column(Nvrs, 1)
        mNrmFxd_temp == [i \in DOMAIN a |-> FAdd(a[i], cNrmFxd_temp[i])]
    IN  LinearInterp(Insert0(mNrmFxd_temp, R(0)), Insert0(cNrmFxd_temp, R(0)), <<>>)

\* lines 863-869, share column c
cFuncFxdColumn(a, Nvrs, c) ==
    LET cNrmFxd_temp == Column(Nvrs, c)
        mNrmFxd_temp == [i \in DOMAIN a |-> FAdd(a[i], cNrmFxd_temp[i])]
    IN  LinearInterp(Insert0(mNrmFxd_temp, R(0)), Insert0(cNrmFxd_temp, R(0)), <<>>)

\* lines 870-875, share column c
dvdsFuncFxdColumn(a, Nvrs, dvds, c) ==
    LET cNrmFxd_temp == Column(Nvrs, c)
        mNrmFxd_temp == [i \in DOMAIN a |-> FAdd(a[i], cNrmFxd_temp[i])]
    IN  LinearInterp(Insert0(mNrmFxd_temp, R(0)),
                     Insert0(Column(dvds, c), dvds[1][c]), <<>>)

\* lines 858-883
BuildFxdFuncs ==
    /\ pc = "adj built"
    /\ UNCHANGED memory
    /\ fxd' = [cFuncFxd_by_Share |->
                 [c \in DOMAIN args.ShareGrid |->
                    cFuncFxdColumn(aNrmGrid, EndOfPrddvdaNvrs, c)],
               dvdsFuncFxd_by_Share |->
                 [c \in DOMAIN args.ShareGrid |->
                    dvdsFuncFxdColumn(aNrmGrid, EndOfPrddvdaNvrs, EndOfPrddvds, c)]]
    /\ pc' = "fxd built"
    /\ UNCHANGED <<inputs, agent, error, trace, grids, search, mNrmAdj_now, save_points,
                   ShareFuncAdj_now, cFuncAdj_now, vfuncs, solution_now>>

\* line 921: the derivative at zero resources of share column c is read at
\* vNvrsP_temp[c, 0], an array of aXtraGrid.size rows and Share_N columns
dfdx0Index(c) == <<c, 1>>

dfdx0InBounds(c, aXtraCount) == dfdx0Index(c)[1] <= aXtraCount

\* lines 886-929
BuildValueFuncs ==
    /\ pc = "fxd built"
    /\ UNCHANGED memory
    /\ IF ~args.vFuncBool
       THEN /\ vfuncs' = [vFuncAdj_now |-> None, vFuncFxd_now |-> None]
            /\ pc' = "value built"
            /\ UNCHANGED error
       ELSE IF \E c \in DOMAIN args.ShareGrid : ~dfdx0InBounds(c, Len(args.aXtraGrid))
       THEN /\ error' = "IndexError: index is out of bounds for axis 0"
            /\ pc' = "raised"
            /\ UNCHANGED vfuncs
       ELSE /\ vfuncs' = [vFuncAdj_now |-> [kind |-> "ValueFuncCRRA", dfdx0 |-> <<1>>],
                          vFuncFxd_now |->
                            [kind |-> "ValueFuncCRRA",
                             dfdx0 |-> [c \in DOMAIN args.ShareGrid |-> dfdx0Index(c)]]]
            /\ pc' = "value built"
            /\ UNCHANGED error
    /\ UNCHANGED <<inputs, agent, trace, grids, search, mNrmAdj_now, save_points,
                   ShareFuncAdj_now, cFuncAdj_now, fxd, solution_now>>

OrNullFuncKeepNone(f) == f

\* PortfolioSolution.__init__, lines 110-128: a missing function becomes NullFunc()
OrNullFunc(f) == IF f = None THEN NullFunc ELSE f

PortfolioSolution(cFuncAdj, ShareFuncAdj, vPfuncAdj, vFuncAdj, cFuncFxd, ShareFuncFxd, dvdmFuncFxd, dvdsFuncFxd, vFuncFxd, aGrid, Share_adj, EndOfPrddvda_adj, ShareGrid, EndOfPrddvda_fxd, AdjPrb) ==
    [returned         |-> TRUE,
     cFuncAdj         |-> OrNullFunc(cFuncAdj),
     cFuncFxd         |-> OrNullFunc(cFuncFxd),
     ShareFuncAdj     |-> OrNullFunc(ShareFuncAdj),
     ShareFuncFxd     |-> OrNullFunc(ShareFuncFxd),
     vFuncAdj         |-> OrNullFunc(vFuncAdj),
     vFuncFxd         |-> OrNullFunc(vFuncFxd),
     vPfuncAdj        |-> OrNullFunc(vPfuncAdj),
     dvdmFuncFxd      |-> OrNullFunc(dvdmFuncFxd),
     dvdsFuncFxd      |-> OrNullFunc(dvdsFuncFxd),
     aGrid            |-> aGrid,
     Share_adj        |-> Share_adj,
     EndOfPrddvda_adj |-> EndOfPrddvda_adj,
     ShareGrid        |-> ShareGrid,
     EndOfPrddvda_fxd |-> EndOfPrddvda_fxd,
     AdjPrb           |-> AdjPrb]

MargValueFuncCRRALog(cFunc, CRRA) == [kind |-> "MargValueFuncCRRA", cFunc |-> cFunc, CRRA |-> 1]

\* HARK.interpolation.MargValueFuncCRRA(cFunc, CRRA)
MargValueFuncCRRA(cFunc, CRRA) == [kind |-> "MargValueFuncCRRA", cFunc |-> cFunc, CRRA |-> CRRA]

LinearInterpOnInterp1D(xInterpolators, y_values) ==
    [kind |-> "LinearInterpOnInterp1D", xInterpolators |-> xInterpolators,
     y_values |-> y_values]

IdentityFunction(i_dim, n_dims) == [kind |-> "IdentityFunction", i_dim |-> i_dim, n_dims |-> n_dims]

\* what a LinearInterpOnInterp1D does at (x, y): the two 1D functions whose
\* y_values bracket y are evaluated at x and their values interpolated
\* linearly in y
EvalLinearInterpOnInterp1D(f, x, y) ==
    LET n     == Len(f.y_values)
        below == Cardinality({k \in 1..n : FLt(f.y_values[k], y)})
        i     == (IF below < 1 THEN 1 ELSE IF below > n - 1 THEN n - 1 ELSE below) + 1
        alpha == FDiv(FSub(y, f.y_values[i - 1]), FSub(f.y_values[i], f.y_values[i - 1]))
    IN  FAdd(FMul(FSub(R(1), alpha), EvalLinearInterp(f.xInterpolators[i - 1], x)),
             FMul(alpha, EvalLinearInterp(f.xInterpolators[i], x)))

\* lines 931-947
Return ==
    /\ pc = "value built"
    /\ UNCHANGED memory
    /\ LET cFuncFxd_now == LinearInterpOnInterp1D(fxd.cFuncFxd_by_Share, args.ShareGrid)
       IN  solution_now' =
             PortfolioSolution(
                 cFuncAdj_now,
                 ShareFuncAdj_now,
                 MargValueFuncCRRA(cFuncAdj_now, args.CRRA),
                 vfuncs.vFuncAdj_now,
                 cFuncFxd_now,
                 IdentityFunction(1, 2),
                 MargValueFuncCRRA(cFuncFxd_now, args.CRRA),
                 LinearInterpOnInterp1D(fxd.dvdsFuncFxd_by_Share, args.ShareGrid),
                 vfuncs.vFuncFxd_now,
                 save_points.a,
                 save_points.share_adj,
                 save_points.eop_dvda_adj,
                 save_points.share_grid,
                 save_points.eop_dvda_fxd,
                 args.AdjustPrb)
    /\ pc' = "returned"
    /\ UNCHANGED <<inputs, agent, error, trace, grids, search, mNrmAdj_now, save_points,
                   ShareFuncAdj_now, cFuncAdj_now, fxd, vfuncs>>

-----------------------------------------------------------------------------
(* Backward induction *)

\* the call is one on typical numerics
TypicalNumerics(a) ==
    LET N == RowsOf(a.aXtraGrid, a.TranShks)
        S == Len(a.ShareGrid)
    IN  a.numerics = Numerics("up", N, S, a.CRRA, [i \in 1..N |-> TypicalFOC(S, "cross")],
                              [i \in 1..N |-> Typicalv(S)])

\* the returned record as the solution_next of the period before: a slot
\* that holds NullFunc has no values, the others are tabulated as before
AsSolutionNext(rec, tabulated) ==
    [vPfuncAdj   |-> IF rec.vPfuncAdj = NullFunc THEN NullFunc ELSE tabulated.vPfuncAdj,
     dvdmFuncFxd |-> IF rec.dvdmFuncFxd = NullFunc THEN NullFunc ELSE tabulated.dvdmFuncFxd,
     dvdsFuncFxd |-> IF rec.dvdsFuncFxd = NullFunc THEN NullFunc ELSE tabulated.dvdsFuncFxd,
     vFuncAdj    |-> IF rec.vFuncAdj = NullFunc THEN NullFunc ELSE tabulated.vFuncAdj,
     vFuncFxd    |-> IF rec.vFuncFxd = NullFunc THEN NullFunc ELSE tabulated.vFuncFxd]

\* the driver of the recursion solves the period before: the record returned
\* becomes solution_next of a call with the same parameters
FeedBack ==
    /\ pc = "returned"
    /\ TypicalNumerics(args)
    /\ args' = [args EXCEPT !.solution_next = AsSolutionNext(solution_now, @)]
    /\ error' = "none"
    /\ reads' = {}
    /\ evaluated' = {}
    /\ nxt' = [dvdm_next |-> <<>>, dvds_next |-> <<>>, v_next |-> <<>>]
    /\ zero_bound' = FALSE
    /\ aNrmGrid' = <<>>
    /\ EndOfPrddvda' = <<>>
    /\ EndOfPrddvdaNvrs' = <<>>
    /\ EndOfPrdv' = <<>>
    /\ EndOfPrddvds' = <<>>
    /\ constrained_top' = <<>>
    /\ constrained_bot' = <<>>
    /\ Share_now' = <<>>
    /\ cNrmAdj_now' = <<>>
    /\ idx' = <<>>
    /\ j' = 0
    /\ mNrmAdj_now' = <<>>
    /\ save_points' = <<>>
    /\ ShareFuncAdj_now' = None
    /\ cFuncAdj_now' = None
    /\ fxd' = <<>>
    /\ vfuncs' = <<>>
    /\ held' = NothingHeld
    /\ written' = {}
    /\ solution_now' = NoRecord
    /\ pc' = "start"
    /\ UNCHANGED agent

-----------------------------------------------------------------------------
(* Methods of the consumer type *)

ConstantFunction(value) == [kind |-> "ConstantFunction", value |-> value]

ValueFuncCRRA(cFunc, CRRA) == [kind |-> "ValueFuncCRRA", cFunc |-> cFunc, CRRA |-> CRRA]

\* the value of one of the two trivial functions at a point (a tuple with one
\* coordinate per dimension): a constant function returns its value, an
\* identity function the coordinate i_dim
EvalTrivial(f, point) ==
    IF f.kind = "ConstantFunction" THEN f.value ELSE point[f.i_dim + 1]

update_solution_terminalAdjOnly(a) ==
    LET cFuncAdj_terminal == IdentityFunction(0, 1)
    IN  [a EXCEPT !.solution_terminal =
            PortfolioSolution(cFuncAdj_terminal, ConstantFunction(R(0)),
                              MargValueFuncCRRA(cFuncAdj_terminal, a.CRRA),
                              ValueFuncCRRA(cFuncAdj_terminal, a.CRRA),
                              None, None, None, None, None,
                              None, None, None, None, None, None)]

\* lines 187-231
update_solution_terminal(a) ==
    LET cFuncAdj_terminal     == IdentityFunction(0, 1)
        cFuncFxd_terminal     == IdentityFunction(0, 2)
        ShareFuncAdj_terminal == ConstantFunction(R(0))
        ShareFuncFxd_terminal == IdentityFunction(1, 2)
        vFuncAdj_terminal     == ValueFuncCRRA(cFuncAdj_terminal, a.CRRA)
        vFuncFxd_terminal     == ValueFuncCRRA(cFuncFxd_terminal, a.CRRA)
        vPfuncAdj_terminal    == MargValueFuncCRRA(cFuncAdj_terminal, a.CRRA)
        dvdmFuncFxd_terminal  == MargValueFuncCRRA(cFuncFxd_terminal, a.CRRA)
        dvdsFuncFxd_terminal  == ConstantFunction(R(0))
    IN  [a EXCEPT !.solution_terminal =
            PortfolioSolution(cFuncAdj_terminal, ShareFuncAdj_terminal,
                              vPfuncAdj_terminal, vFuncAdj_terminal,
                              cFuncFxd_terminal, ShareFuncFxd_terminal,
                              dvdmFuncFxd_terminal, dvdsFuncFxd_terminal,
                              vFuncFxd_terminal,
                              None, None, None, None, None, None)]

\* the caller sets the parameter ShareCount of the instance
SetShareCount ==
    /\ self.constructed
    /\ self.solution = None
    /\ \E ShareCount \in 1..MaxShareCount :
           /\ ShareCount # self.ShareCount
           /\ self' = [self EXCEPT !.ShareCount = ShareCount]
    /\ pc' = "assigned"
    /\ UNCHANGED <<inputs, made, which_agents, error, trace, grids, search, memory, built>>

\* update(), lines 181-185
Update ==
    /\ self.constructed
    /\ self.solution = None
    /\ pc # "updated"
    /\ self' = update(self)
    /\ pc' = "updated"
    /\ UNCHANGED <<inputs, made, which_agents, error, trace, grids, search, memory, built>>

\* pre_solve(), lines 177-179
PreSolve ==
    /\ self.constructed
    /\ self.solution = None
    /\ pc # "pre-solved"
    /\ self' = update_solution_terminal(self)
    /\ pc' = "pre-solved"
    /\ UNCHANGED <<inputs, made, which_agents, error, trace, grids, search, memory, built>>

\* the nine function arguments of PortfolioSolution
FunctionSlots ==
    {"cFuncAdj", "ShareFuncAdj", "vFuncAdj", "vPfuncAdj", "cFuncFxd", "ShareFuncFxd",
     "vFuncFxd", "dvdmFuncFxd", "dvdsFuncFxd"}

\* a function passed for a slot
Supplied(slot) == [kind |-> "supplied", slot |-> slot]

\* a direct construction of PortfolioSolution, lines 91-145, with the
\* functions of any set of slots supplied and the rest left out
Construct ==
    /\ self.constructed
    /\ self.solution = None
    /\ pc = "constructed"
    /\ \E passed \in SUBSET FunctionSlots :
           LET arg(slot) == IF slot \in passed THEN Supplied(slot) ELSE None
           IN  /\ given' = passed
               /\ record' = PortfolioSolution(arg("cFuncAdj"), arg("ShareFuncAdj"),
                                               arg("vPfuncAdj"), arg("vFuncAdj"),
                                               arg("cFuncFxd"), arg("ShareFuncFxd"),
                                               arg("dvdmFuncFxd"), arg("dvdsFuncFxd"),
                                               arg("vFuncFxd"),
                                               None, None, None, None, None, None)
    /\ pc' = "record built"
    /\ UNCHANGED <<inputs, self, which_agents, error, trace, grids, search, memory, built>>

-----------------------------------------------------------------------------
(* Simulation of a solved instance, lines 309-385 *)

AgentCount == 2

Agents == 1..AgentCount

\* a record of the kind the solver returns for cycle period t, with knots at
\* resources 0 and 2
SolvedRecord(t, CRRA) ==
    LET grid         == <<R(0), R(2)>>
        cFuncAdj     == LinearInterp(grid, <<R(0), R(1 + t)>>, <<>>)
        ShareFuncAdj == LinearInterp(grid, <<R(1), IF t = 0 THEN <<3, 4>> ELSE Half>>,
                                     ShareLimits(<<3, 4>>))
        cFuncFxd     == LinearInterpOnInterp1D(
                            <<LinearInterp(grid, <<R(0), R(1 + t)>>, <<>>),
                              LinearInterp(grid, <<R(0), R(2)>>, <<>>)>>,
                            ShareGridOf(2))
        dvdsFuncFxd  == LinearInterpOnInterp1D(
                            <<LinearInterp(grid, <<R(1), R(1)>>, <<>>),
                              LinearInterp(grid, <<R(-1), R(-1)>>, <<>>)>>,
                            ShareGridOf(2))
    IN  PortfolioSolution(cFuncAdj, ShareFuncAdj, MargValueFuncCRRA(cFuncAdj, CRRA), None,
                          cFuncFxd, IdentityFunction(1, 2),
                          MargValueFuncCRRA(cFuncFxd, CRRA), dvdsFuncFxd, None,
                          <<R(1)>>, <<IF t = 0 THEN <<3, 4>> ELSE Half>>, <<R(1)>>,
                          ShareGridOf(2), <<<<R(1), R(1)>>>>, R(1))

\* the records of a cycle as solve() leaves them in self.solution: one solved
\* record per period, or the terminal record in the last period
SolutionLists(CRRA) ==
    {[t \in 1..T_cycle |-> SolvedRecord(t - 1, CRRA)],
     [t \in 1..T_cycle |->
        IF t < T_cycle THEN SolvedRecord(t - 1, CRRA)
        ELSE update_solution_terminal([CRRA |-> CRRA, solution_terminal |-> None]).solution_terminal]}

\* AgentType.solve(): the records of the cycle become self.solution
solve(a, solution) == [update_solution_terminal(a) EXCEPT !.solution = solution]

\* the resources of an agent, as get_states left them
mNrmOf(k) == R(((k - 1) % 2) + 1)

\* IndShockConsumerType.sim_birth, called at line 341: the agents born start
\* the cycle anew
ParentSimBirth(a, which) ==
    [a EXCEPT !.t_cycle = [k \in Agents |-> IF k \in which THEN 0 ELSE @[k]]]

sim_birthEveryone(a, which) ==
    LET born == ParentSimBirth(a, which)
    IN  [born EXCEPT !.controls.Share = [k \in Agents |-> R(0)],
                     !.shocks.Adjust = [k \in Agents |-> FALSE]]

\* lines 327-345
sim_birth(a, which) ==
    LET born == ParentSimBirth(a, which)
    IN  [born EXCEPT !.controls.Share = [k \in Agents |-> IF k \in which THEN R(0) ELSE @[k]],
                     !.shocks.Adjust = [k \in Agents |-> IF k \in which THEN FALSE ELSE @[k]]]

\* RiskyAssetConsumerType.initialize_sim, called at line 325: blank states and
\* shocks, then every agent is born
ParentInitializeSim(a) ==
    sim_birth([a EXCEPT !.t_cycle = [k \in Agents |-> 0],
                        !.state_now = [mNrm |-> [k \in Agents |-> NaN]],
                        !.shocks = [Adjust |-> [k \in Agents |-> FALSE]],
                        !.used = [k \in Agents |-> {}]],
              Agents)

\* lines 309-325
initialize_sim(a) ==
    ParentInitializeSim([a EXCEPT !.controls = [Share |-> [k \in Agents |-> R(0)],
                                                cNrm  |-> [k \in Agents |-> NaN]]])

\* a function of resources at m
Eval1D(f, m) ==
    IF f.kind = "LinearInterp" THEN EvalLinearInterp(f, m) ELSE EvalTrivial(f, <<m>>)

\* a function of resources and share at (m, s)
Eval2D(f, m, s) ==
    IF f.kind = "LinearInterpOnInterp1D" THEN EvalLinearInterpOnInterp1D(f, m, s)
    ELSE EvalTrivial(f, <<m, s>>)

\* what a MargValueFuncCRRA over resources does at m: the marginal utility of
\* the consumption its cFunc gives
EvalMargValue1D(f, m) == utilityP(Eval1D(f.cFunc, m), f.CRRA)

\* the same over resources and share
EvalMargValue2D(f, m, s) == utilityP(Eval2D(f.cFunc, m, s), f.CRRA)

\* the share array the Fxd functions are evaluated at: the local ShareNow of
\* line 361
LocalShare(a, ShareNow) == ShareNow

\* the loop of lines 364-381 from period t on; used records, per agent, the
\* period and regime of every evaluation made for that agent
RECURSIVE ControlsLoop(_, _, _, _, _)
ControlsLoop(a, t, cNrmNow, ShareNow, used) ==
    IF t >= T_cycle THEN [cNrm |-> cNrmNow, Share |-> ShareNow, used |-> used]
    ELSE LET solution_t == a.solution[t + 1]
             mNrm       == a.state_now.mNrm
             these(k)   == a.t_cycle[k] = t
             adj(k)     == these(k) /\ a.shocks.Adjust[k]
             fix(k)     == these(k) /\ ~a.shocks.Adjust[k]
             cNrm1  == [k \in Agents |-> IF adj(k) THEN Eval1D(solution_t.cFuncAdj, mNrm[k])
                                         ELSE cNrmNow[k]]
             Share1 == [k \in Agents |-> IF adj(k) THEN Eval1D(solution_t.ShareFuncAdj, mNrm[k])
                                         ELSE ShareNow[k]]
             cNrm2  == [k \in Agents |->
                          IF fix(k)
                          THEN Eval2D(solution_t.cFuncFxd, mNrm[k], LocalShare(a, Share1)[k])
                          ELSE cNrm1[k]]
             Share2 == [k \in Agents |->
                          IF fix(k)
                          THEN Eval2D(solution_t.ShareFuncFxd, mNrm[k], LocalShare(a, Share1)[k])
                          ELSE Share1[k]]
             used2  == [k \in Agents |->
                          used[k] \cup (IF adj(k) THEN {<<t, "Adj">>} ELSE {})
                                  \cup (IF fix(k) THEN {<<t, "Fxd">>} ELSE {})]
         IN  ControlsLoop(a, t + 1, cNrm2, Share2, used2)

\* lines 347-385
get_controls(a) ==
    LET out == ControlsLoop(a, 0, [k \in Agents |-> NaN], [k \in Agents |-> NaN],
                            [k \in Agents |-> {}])
    IN  [a EXCEPT !.controls = [cNrm |-> out.cNrm, Share |-> out.Share],
                  !.used = out.used]

\* initialize_sim(), lines 309-325
InitializeSim ==
    /\ pc = "solved"
    /\ self' = initialize_sim(self)
    /\ which_agents' = Agents
    /\ pc' = "initialized"
    /\ UNCHANGED <<inputs, made, error, trace, grids, search, memory, built>>

\* the framework draws the shocks of a period and moves the agents on: each
\* agent has an Adjust draw, resources and a period of the cycle
DrawPeriod ==
    /\ pc \in {"initialized", "born"}
    /\ \E Adjust \in [Agents -> BOOLEAN], t_cycle \in [Agents -> 0..(T_cycle - 1)] :
           self' = [self EXCEPT !.shocks.Adjust = Adjust,
                                !.t_cycle = t_cycle,
                                !.state_now.mNrm = [k \in Agents |-> mNrmOf(k)]]
    /\ pc' = "drawn"
    /\ UNCHANGED <<inputs, made, which_agents, error, trace, grids, search, memory, built>>

\* get_controls(), lines 347-385
GetControls ==
    /\ pc = "drawn"
    /\ self' = get_controls(self)
    /\ pc' = "controls"
    /\ UNCHANGED <<inputs, made, which_agents, error, trace, grids, search, memory, built>>

\* sim_birth(which_agents), lines 327-345
SimBirth ==
    /\ pc = "controls"
    /\ \E which \in SUBSET Agents :
           /\ which_agents' = which
           /\ self' = sim_birth(self, which)
    /\ pc' = "born"
    /\ UNCHANGED <<inputs, made, error, trace, grids, search, memory, built>>

-----------------------------------------------------------------------------

\* a call of the solver is about to start, or an instance of the consumer
\* type has just been constructed, or a solved instance is about to be
\* simulated
Init ==
    /\ NotStarted
    /\ record = None
    /\ given = {}
    /\ which_agents = {}
    /\ \/ /\ (ConfigCall(args) \/ ContinuousCall(args) \/ DiscreteCall(args))
          /\ pc = "start"
          /\ self = NoAgent
       \/ /\ args = NoCall
          /\ pc = "constructed"
          /\ \E ShareCount \in 1..MaxShareCount, CRRA \in CRRAVals,
                RiskyVaries \in BOOLEAN, SharePF \in SharePFVals :
                 self = PortfolioConsumerType(ShareCount, CRRA, RiskyVaries, SharePF)
       \/ /\ args = NoCall
          /\ pc = "solved"
          /\ \E CRRA \in CRRAVals : \E solution \in SolutionLists(CRRA) :
                 self = solve(PortfolioConsumerType(2, CRRA, FALSE, <<3, 4>>), solution)

Next ==
    \/ RaiseBoroCnstArt
    \/ RaiseDiscreteWithoutvFunc
    \/ Unpack
    \/ ExpectIndependent
    \/ ExpectJoint
    \/ DiscreteShare
    \/ ContinuousClip
    \/ SearchRow
    \/ EndogenousGrid
    \/ BuildAdjFuncs
    \/ BuildFxdFuncs
    \/ BuildValueFuncs
    \/ Return
    \/ FeedBack
    \/ SetShareCount
    \/ Update
    \/ PreSolve
    \/ Construct
    \/ InitializeSim
    \/ DrawPeriod
    \/ GetControls
    \/ SimBirth

Spec == Init /\ [][Next]_vars

-----------------------------------------------------------------------------
(* Properties *)

\* nothing has been read, computed or returned
NothingDone ==
    /\ reads = {}
    /\ evaluated = {}
    /\ aNrmGrid = <<>>
    /\ EndOfPrddvds = <<>>
    /\ solution_now = NoRecord

InUnit(x) == FLe(R(0), x) /\ FLe(x, R(1))

\* the share and the consumption of asset point i; the continuous branch
\* prepends the knot at zero resources to both arrays once the grid is built
ShareAt(i) == Share_now[i + Len(Share_now) - Len(aNrmGrid)]

cAt(i) == cNrmAdj_now[i + Len(cNrmAdj_now) - Len(aNrmGrid)]

\* the continuous branch has clipped the arrays; asset point i has been through
\* the search loop
Clipped == ~args.DiscreteShareBool /\ j >= 1

Searched(i) == Clipped /\ i < j

Forced(i) == ~zero_bound /\ i = 1

\* C1: a call with BoroCnstArt different from 0.0 raises the BoroCnstArt
\* configuration error and nothing else: it never reads solution_next, a
\* distribution or a grid, computes nothing and returns no record, whatever
\* the other arguments are.
C1_BoroCnstArtRaisesFirst ==
    args.BoroCnstArt # R(0) =>
        /\ pc \in {"start", "raised"}
        /\ pc = "raised" => error = BoroCnstArtError
        /\ pc = "start" => error = "none"
        /\ NothingDone

C1_Witness ==
    /\ args.BoroCnstArt = Half
    /\ args.DiscreteShareBool /\ ~args.vFuncBool
    /\ pc = "raised"
    /\ error = BoroCnstArtError

\* C2: with BoroCnstArt = 0, a call with DiscreteShareBool true and vFuncBool
\* false raises the discrete-share configuration error before anything is read
\* or computed and returns no record; with any other pair of the two flags that
\* error is never raised.
C2_DiscreteNeedsvFunc ==
    args.BoroCnstArt = R(0) =>
        /\ (args.DiscreteShareBool /\ ~args.vFuncBool) =>
              /\ pc \in {"start", "raised"}
              /\ pc = "raised" => error = DiscreteError
              /\ pc = "start" => error = "none"
              /\ NothingDone
        /\ ~(args.DiscreteShareBool /\ ~args.vFuncBool) =>
              error # DiscreteError

C2_Witness ==
    /\ args.BoroCnstArt = R(0)
    /\ args.DiscreteShareBool /\ ~args.vFuncBool
    /\ pc = "raised"
    /\ error = DiscreteError

\* C3 (as claimed): every risky share tabulated for the adjusting agent lies in
\* [0,1]: each entry of Share_now and of the returned Share_adj, and each knot
\* value of ShareFuncAdj, in the continuous and in the discrete branch.
C3_SharesInUnitInterval ==
    /\ \A i \in DOMAIN Share_now : InUnit(Share_now[i])
    /\ ShareFuncAdj_now.kind = "LinearInterp" =>
          \A k \in DOMAIN ShareFuncAdj_now.y_list : InUnit(ShareFuncAdj_now.y_list[k])
    /\ solution_now.returned =>
          \A i \in DOMAIN solution_now.Share_adj : InUnit(solution_now.Share_adj[i])

\* C4 (as claimed): the knots of cFuncAdj are the origin followed by
\* (a_j + c_j, c_j) with c_j >= 0, strictly increasing resources and
\* non-decreasing consumption.
C4_ConsumptionMonotone ==
    cFuncAdj_now.kind = "LinearInterp" =>
        LET x == cFuncAdj_now.x_list
            y == cFuncAdj_now.y_list
        IN  /\ x[1] = R(0) /\ y[1] = R(0)
            /\ \A k \in 2..Len(x) :
                  /\ x[k] = FAdd(aNrmGrid[k - 1], y[k])
                  /\ FGe(y[k], R(0))
                  /\ FLt(x[k - 1], x[k])
                  /\ FLe(y[k - 1], y[k])

\* C5 (as claimed): every asset point that went through the search unclipped
\* has a selected pair of adjacent share-grid points whose first-order
\* condition values bracket zero, and its share lies between the two points.
C5_BracketAndShareInside ==
    \A i \in DOMAIN aNrmGrid :
        (Searched(i) /\ ~constrained_top[i] /\ ~constrained_bot[i]) =>
            /\ idx[i] \in 1..(Len(args.ShareGrid) - 1)
            /\ FGe(EndOfPrddvds[i][idx[i]], R(0))
            /\ FLe(EndOfPrddvds[i][idx[i] + 1], R(0))
            /\ FLe(args.ShareGrid[idx[i]], ShareAt(i))
            /\ FLe(ShareAt(i), args.ShareGrid[idx[i] + 1])

\* the zero of the straight line through (bot_s, bot_f) and (top_s, top_f)
LineZero(bot_s, top_s, bot_f, top_f) ==
    FAdd(bot_s, FDiv(FMul(FSub(top_s, bot_s), bot_f), FSub(bot_f, top_f)))

\* C6: for a selected bracket whose first-order condition values are not both
\* zero, the share is the zero of the straight line through the two bracket
\* points; on a 2-point grid {0,1} with values p and -q it is p/(p+q).
C6_ShareIsLinearCrossing ==
    \A i \in DOMAIN aNrmGrid :
        (Searched(i) /\ idx[i] # 0) =>
            LET bot_f == EndOfPrddvds[i][idx[i]]
                top_f == EndOfPrddvds[i][idx[i] + 1]
            IN  ~(bot_f = R(0) /\ top_f = R(0)) =>
                    /\ ShareAt(i) = LineZero(args.ShareGrid[idx[i]],
                                             args.ShareGrid[idx[i] + 1], bot_f, top_f)
                    /\ Len(args.ShareGrid) = 2 =>
                          ShareAt(i) = Norm(bot_f[1], bot_f[1] - top_f[1])

\* a 2-point grid with p = 1 and q = 2: the share is 1/3
C6_Witness ==
    /\ Len(args.ShareGrid) = 2
    /\ \E i \in DOMAIN aNrmGrid :
          /\ Searched(i) /\ idx[i] = 1
          /\ EndOfPrddvds[i] = <<R(1), R(-2)>>
          /\ ShareAt(i) = <<1, 3>>

AllPositive(row) == \A k \in DOMAIN row : FGt(row[k], R(0))

AllNegative(row) == \A k \in DOMAIN row : FLt(row[k], R(0))

\* C7: in the continuous branch, at every asset point other than a forced
\* zero-asset point, a first-order condition positive at every share gives
\* share 1 and the consumption of the last share column, and one negative at
\* every share gives share 0 and the consumption of the first share column.
C7_ClipToBoundary ==
    \A i \in DOMAIN aNrmGrid :
        (Clipped /\ ~Forced(i)) =>
            /\ AllPositive(EndOfPrddvds[i]) =>
                  ShareAt(i) = R(1) /\ cAt(i) = Last(EndOfPrddvdaNvrs[i])
            /\ AllNegative(EndOfPrddvds[i]) =>
                  ShareAt(i) = R(0) /\ cAt(i) = EndOfPrddvdaNvrs[i][1]

\* both cases in one call, after the search
C7_Witness ==
    /\ pc = "chosen" /\ Clipped
    /\ \E i \in DOMAIN aNrmGrid :
          ~Forced(i) /\ AllPositive(EndOfPrddvds[i]) /\ ShareAt(i) = R(1)
    /\ \E i \in DOMAIN aNrmGrid :
          ~Forced(i) /\ AllNegative(EndOfPrddvds[i]) /\ ShareAt(i) = R(0)
             /\ cAt(i) # Last(EndOfPrddvdaNvrs[i])

C9_ConsumptionAtChosenShare ==
    \A i \in DOMAIN aNrmGrid :
        (Clipped /\ j > Len(aNrmGrid)) =>
            /\ ShareAt(i) = R(1) => cAt(i) = Last(EndOfPrddvdaNvrs[i])
            /\ ShareAt(i) = R(0) => cAt(i) = EndOfPrddvdaNvrs[i][1]
            /\ (idx[i] # 0 /\ FLt(R(0), ShareAt(i)) /\ FLt(ShareAt(i), R(1))) =>
                  LET bot_s == args.ShareGrid[idx[i]]
                      top_s == args.ShareGrid[idx[i] + 1]
                      w     == FDiv(FSub(ShareAt(i), bot_s), FSub(top_s, bot_s))
                  IN  cAt(i) = FAdd(FMul(FSub(R(1), w), EndOfPrddvdaNvrs[i][idx[i]]),
                                    FMul(w, EndOfPrddvdaNvrs[i][idx[i] + 1]))

FxdSlots == {"dvdmFuncFxd", "dvdsFuncFxd", "vFuncFxd"}

Expected == Len(nxt.dvdm_next) > 0

\* C10 (as claimed): with AdjustPrb = 1.0 no Fxd function of solution_next is
\* evaluated and, in every scenario, dvdm_next = vPfuncAdj_next(m),
\* dvds_next = 0 and v_next = vFuncAdj_next(m).
C10_AdjValuesAtFullAdjustment ==
    args.AdjustPrb = R(1) =>
        /\ evaluated \cap FxdSlots = {}
        /\ Expected =>
              \A k \in 1..ShockCount :
                  /\ nxt.dvdm_next[k] = args.solution_next.vPfuncAdj[k]
                  /\ nxt.dvds_next[k] = R(0)
                  /\ Len(nxt.v_next) > 0 =>
                        nxt.v_next[k] = args.solution_next.vFuncAdj[k]

\* C10 (amended): with AdjustPrb = 1.0 no Fxd function of solution_next is
\* evaluated, dvdm_next = vPfuncAdj_next(m) and dvds_next = 0 in every
\* scenario, and v_next = vFuncAdj_next(m) when vFuncBool is true; when
\* vFuncBool is false vFuncAdj_next is not evaluated either: the joint path
\* sets v_next to zero and the independent path does not compute it.
C10_AdjValuesWhenRequested ==
    args.AdjustPrb = R(1) =>
        /\ evaluated \cap FxdSlots = {}
        /\ Expected =>
              /\ \A k \in 1..ShockCount :
                    /\ nxt.dvdm_next[k] = args.solution_next.vPfuncAdj[k]
                    /\ nxt.dvds_next[k] = R(0)
              /\ args.vFuncBool =>
                    /\ Len(nxt.v_next) = ShockCount
                    /\ \A k \in 1..ShockCount :
                          nxt.v_next[k] = args.solution_next.vFuncAdj[k]
              /\ ~args.vFuncBool =>
                    /\ "vFuncAdj" \notin evaluated
                    /\ IF args.IndepDstnBool
                       THEN nxt.v_next = <<>>
                       ELSE nxt.v_next = [k \in 1..ShockCount |-> R(0)]

C10_Witness ==
    /\ args.AdjustPrb = R(1)
    /\ ~args.IndepDstnBool
    /\ args.vFuncBool
    /\ Expected
    /\ evaluated = {"vPfuncAdj", "vFuncAdj"}
    /\ nxt.v_next = args.solution_next.vFuncAdj

\* C11: with AdjustPrb < 1 every next-period quantity the solver uses is
\* AdjustPrb * (Adj value) + (1 - AdjustPrb) * (Fxd value), with 0 as the Adj
\* marginal value of share, in the independent and in the joint path alike;
\* for 0 < AdjustPrb it lies strictly between two different regime values, so
\* it is not their maximum.  The value is used only under vFuncBool.
C11_MixtureNotMax ==
    (FLt(args.AdjustPrb, R(1)) /\ Expected) =>
        LET p  == args.AdjustPrb
            sn == args.solution_next
            Mix(adj, fx) == FAdd(FMul(p, adj), FMul(FSub(R(1), p), fx))
        IN  \A k \in 1..ShockCount :
                /\ nxt.dvdm_next[k] = Mix(sn.vPfuncAdj[k], sn.dvdmFuncFxd[k])
                /\ nxt.dvds_next[k] = Mix(R(0), sn.dvdsFuncFxd[k])
                /\ args.vFuncBool => nxt.v_next[k] = Mix(sn.vFuncAdj[k], sn.vFuncFxd[k])
                /\ (FLt(R(0), p) /\ sn.vPfuncAdj[k] # sn.dvdmFuncFxd[k]) =>
                      FLt(nxt.dvdm_next[k], FMax(sn.vPfuncAdj[k], sn.dvdmFuncFxd[k]))
                /\ (FLt(R(0), p) /\ args.vFuncBool /\ sn.vFuncAdj[k] # sn.vFuncFxd[k]) =>
                      FLt(nxt.v_next[k], FMax(sn.vFuncAdj[k], sn.vFuncFxd[k]))

\* the joint path at AdjustPrb = 1/2: the mean of 3 and 5 is 4, of -2 and -4 is -3
C11_Witness ==
    /\ args.AdjustPrb = Half
    /\ ~args.IndepDstnBool
    /\ args.vFuncBool
    /\ Expected
    /\ args.solution_next.vPfuncAdj[1] = R(3)
    /\ args.solution_next.dvdmFuncFxd[1] = R(5)
    /\ nxt.dvdm_next[1] = R(4)
    /\ nxt.v_next[1] = R(-3)
    /\ evaluated = {"vPfuncAdj", "vFuncAdj", "dvdmFuncFxd", "dvdsFuncFxd", "vFuncFxd"}

\* the transitory shocks are non-negative: their minimum is zero exactly when
\* one of them is zero
MinTranShkIsZero == \E k \in DOMAIN args.TranShks : args.TranShks[k] = R(0)

GridBuilt == aNrmGrid # <<>>

\* C14 (as claimed): in both paths the asset grid is the supplied grid with an
\* exact-zero point in front when the minimum transitory shock is zero, and
\* the supplied grid itself otherwise.
C14_ZeroPointWhenShockIsZero ==
    GridBuilt =>
        /\ MinTranShkIsZero => aNrmGrid = <<R(0)>> \o args.aXtraGrid
        /\ ~MinTranShkIsZero => aNrmGrid = args.aXtraGrid

\* C14 (amended): in both paths the asset grid is the supplied grid itself
\* when the minimum transitory shock is zero (zero_bound), and the supplied
\* grid with an exact-zero point in front when that minimum is not zero.
C14_ZeroPointWhenShockIsPositive ==
    GridBuilt =>
        /\ zero_bound <=> MinTranShkIsZero
        /\ MinTranShkIsZero => aNrmGrid = args.aXtraGrid
        /\ ~MinTranShkIsZero => aNrmGrid = <<R(0)>> \o args.aXtraGrid

\* the joint path with a positive income floor: one more point, zero in front
C14_Witness ==
    /\ GridBuilt
    /\ ~args.IndepDstnBool
    /\ ~MinTranShkIsZero
    /\ Len(args.aXtraGrid) = 2
    /\ aNrmGrid = <<R(0), R(1), R(2)>>

\* the share the continuous branch gives a point that is optimized: 1 when the
\* condition is positive at share 1, else 0 when it is negative at share 0,
\* else the zero of the line through the first bracket
OptimizedShare(row, grid) ==
    IF FGt(Last(row), R(0)) THEN R(1)
    ELSE IF FLt(row[1], R(0)) THEN R(0)
    ELSE LET B == {k \in 1..(Len(row) - 1) : FGe(row[k], R(0)) /\ FLe(row[k + 1], R(0))}
             k == CHOOSE b \in B : \A l \in B : b <= l
         IN  LineZero(grid[k], grid[k + 1], row[k], row[k + 1])

\* C15: in the continuous branch with a positive income floor the share at the
\* zero-asset point is 1 whatever the first-order condition is there, and the
\* knot of ShareFuncAdj at zero resources is 1; with a zero income floor the
\* first asset point is optimized like every other point and the knot at zero
\* resources is ShareLimit.
C15_ForcedShareAtZeroAssets ==
    ~args.DiscreteShareBool =>
        /\ (Clipped /\ ~zero_bound) =>
              /\ ~MinTranShkIsZero
              /\ aNrmGrid[1] = R(0)
              /\ ShareAt(1) = R(1)
        /\ (Searched(1) /\ zero_bound) =>
              /\ MinTranShkIsZero
              /\ constrained_top[1] <=> FGt(Last(EndOfPrddvds[1]), R(0))
              /\ ShareAt(1) = OptimizedShare(EndOfPrddvds[1], args.ShareGrid)
        /\ ShareFuncAdj_now.kind = "LinearInterp" =>
              /\ ShareFuncAdj_now.x_list[1] = R(0)
              /\ ShareFuncAdj_now.y_list[1] = IF zero_bound THEN args.ShareLimit ELSE R(1)

\* a zero-asset point whose condition is negative at every share, share 1
C15_Witness ==
    /\ ~args.DiscreteShareBool
    /\ ~zero_bound
    /\ ShareFuncAdj_now.kind = "LinearInterp"
    /\ AllNegative(EndOfPrddvds[1])
    /\ ShareAt(1) = R(1)
    /\ ShareFuncAdj_now.y_list = <<R(1), R(1), R(0)>>

InGrid(x, grid) == \E k \in DOMAIN grid : grid[k] = x

\* the discrete branch has chosen the shares
DiscreteChosen == args.DiscreteShareBool /\ Share_now # <<>>

C17_cFuncAdjThroughGridPoints ==
    cFuncAdj_now.kind = "LinearInterp" =>
        /\ FEq(EvalLinearInterp(cFuncAdj_now, R(0)), R(0))
        /\ \A i \in DOMAIN aNrmGrid :
              FEq(EvalLinearInterp(cFuncAdj_now, FAdd(aNrmGrid[i], cAt(i))), cAt(i))

\* C18 (as claimed): the far-resource asymptote of the returned ShareFuncAdj
\* is the constant ShareLimit: intercept ShareLimit, slope zero.
C18_ShareFuncAdjLimit ==
    /\ ShareFuncAdj_now.kind = "LinearInterp" =>
          Asymptote(ShareFuncAdj_now) = <<args.ShareLimit, R(0)>>
    /\ solution_now.returned =>
          Asymptote(solution_now.ShareFuncAdj) = <<args.ShareLimit, R(0)>>

\* C18 (amended): in the continuous branch the far-resource asymptote of the
\* returned ShareFuncAdj is the constant ShareLimit; in the discrete branch no
\* limit is supplied and the function stays, beyond its last knot, at the
\* share-grid value chosen for the last asset point.
C18_ShareFuncAdjLimitContinuous ==
    LET Pinned(f) ==
            IF args.DiscreteShareBool
            THEN f.limits = <<>> /\ Asymptote(f) = <<Last(Share_now), R(0)>>
            ELSE f.limits = <<args.ShareLimit, R(0)>> /\ Asymptote(f) = <<args.ShareLimit, R(0)>>
    IN  /\ ShareFuncAdj_now.kind = "LinearInterp" => Pinned(ShareFuncAdj_now)
        /\ solution_now.returned => Pinned(solution_now.ShareFuncAdj)

\* a returned continuous-branch record whose last knot is not at the limit
C18_Witness ==
    /\ ~args.DiscreteShareBool
    /\ solution_now.returned
    /\ args.ShareLimit = <<3, 4>>
    /\ Last(solution_now.ShareFuncAdj.y_list) = R(0)
    /\ Asymptote(solution_now.ShareFuncAdj) = <<<<3, 4>>, R(0)>>

\* C19: a call assigns into no array the caller owns, in any branch, and the
\* aGrid and ShareGrid of the returned record are buffers of their own, apart
\* from the inputs and from the arrays the call worked on.
C19_InputsNotMutated ==
    /\ written \cap InputBuffers = {}
    /\ args.aXtraGrid = aXtraGridOf(Len(args.aXtraGrid))
    /\ args.ShareGrid = ShareGridOf(Len(args.ShareGrid))
    /\ save_points # <<>> =>
          /\ held.save_a \notin InputBuffers \cup {held.aNrmGrid}
          /\ held.save_share_grid \notin InputBuffers
          /\ held.save_share_adj \notin InputBuffers \cup {held.Share_now}
          /\ save_points.a = aNrmGrid
          /\ save_points.share_grid = args.ShareGrid
    /\ solution_now.returned =>
          /\ solution_now.aGrid = aNrmGrid
          /\ solution_now.ShareGrid = args.ShareGrid

\* a returned record of a call whose asset grid was the caller's own array
C19_Witness ==
    /\ solution_now.returned
    /\ zero_bound
    /\ held.aNrmGrid = "aXtraGrid"
    /\ held.save_a = "save_points.a"
    /\ written = {"Share_now", "cNrmAdj_now"}
    /\ solution_now.aGrid = args.aXtraGrid

\* the instance is as update() left it
Updated == self.constructed /\ pc \in {"constructed", "updated"}

EvenlySpaced(grid) ==
    \A k \in 1..(Len(grid) - 1) :
        /\ FLt(grid[k], grid[k + 1])
        /\ FSub(grid[k + 1], grid[k]) = Norm(1, Len(grid) - 1)

ProbePoints == {R(0), Half, R(1), R(3)}

\* C12: the terminal record has cFuncAdj(m) = m, ShareFuncAdj = 0,
\* cFuncFxd(m, s) = m, ShareFuncFxd(m, s) = s and dvdsFuncFxd = 0 at every
\* point, and none of its nine function slots is the null-function marker.
C12_TerminalRecord ==
    (self.constructed /\ self.solution_terminal # None) =>
        LET t == self.solution_terminal
        IN  /\ \A slot \in FunctionSlots : t[slot] \notin {NullFunc, None}
            /\ \A m \in ProbePoints :
                   /\ EvalTrivial(t.cFuncAdj, <<m>>) = m
                   /\ EvalTrivial(t.ShareFuncAdj, <<m>>) = R(0)
                   /\ \A s \in ProbePoints :
                          /\ EvalTrivial(t.cFuncFxd, <<m, s>>) = m
                          /\ EvalTrivial(t.ShareFuncFxd, <<m, s>>) = s
                          /\ EvalTrivial(t.dvdsFuncFxd, <<m, s>>) = R(0)

\* pre_solve() has built the terminal record
C12_Witness ==
    /\ self.constructed
    /\ pc = "pre-solved"
    /\ self.solution_terminal # None
    /\ self.solution_terminal.returned
    /\ self.solution_terminal.cFuncFxd = IdentityFunction(0, 2)
    /\ EvalTrivial(self.solution_terminal.ShareFuncFxd, <<R(3), Half>>) = Half

\* C13: every function slot of a constructed PortfolioSolution holds the
\* function it was passed, or the null-function marker when none was passed,
\* and never None; a record returned by the solver without value functions
\* has the null-function marker in vFuncAdj and vFuncFxd.
C13_SlotsNeverAbsent ==
    /\ record # None =>
          \A slot \in FunctionSlots :
              /\ record[slot] # None
              /\ record[slot] = IF slot \in given THEN Supplied(slot) ELSE NullFunc
    /\ solution_now.returned =>
          /\ \A slot \in FunctionSlots : solution_now[slot] # None
          /\ solution_now.cFuncAdj = cFuncAdj_now
          /\ solution_now.ShareFuncAdj = ShareFuncAdj_now
          /\ ~args.vFuncBool =>
                /\ solution_now.vFuncAdj = NullFunc
                /\ solution_now.vFuncFxd = NullFunc
          /\ args.vFuncBool =>
                /\ solution_now.vFuncAdj = vfuncs.vFuncAdj_now
                /\ solution_now.vFuncFxd = vfuncs.vFuncFxd_now

\* a record constructed with some functions passed and some left out
C13_Witness ==
    /\ record # None
    /\ given = {"cFuncAdj", "ShareFuncFxd"}
    /\ record.cFuncAdj = Supplied("cFuncAdj")
    /\ record.vFuncAdj = NullFunc
    /\ record.dvdsFuncFxd = NullFunc

\* a record returned by the solver without value functions
C13_WitnessReturned ==
    /\ solution_now.returned
    /\ ~args.vFuncBool
    /\ solution_now.vFuncAdj = NullFunc
    /\ solution_now.vFuncFxd = NullFunc

\* C21: in a returned record aGrid, Share_adj and EndOfPrddvda_adj have one
\* entry per asset-grid point, in the order of the asset grid; ShareGrid is
\* the input share grid; EndOfPrddvda_fxd has one row per asset-grid point and
\* one column per share-grid point; cFuncFxd and dvdsFuncFxd are built from
\* one 1D function per share-grid point, in the order of the share grid.
C21_DiagnosticsAligned ==
    solution_now.returned =>
        LET N == Len(aNrmGrid)
            S == Len(args.ShareGrid)
        IN  /\ Len(solution_now.aGrid) = N
            /\ Len(solution_now.Share_adj) = N
            /\ Len(solution_now.EndOfPrddvda_adj) = N
            /\ \A i \in 1..N :
                   /\ solution_now.aGrid[i] = aNrmGrid[i]
                   /\ solution_now.Share_adj[i] = ShareAt(i)
                   /\ solution_now.EndOfPrddvda_adj[i] = utilityP(cAt(i), args.CRRA)
            /\ solution_now.ShareGrid = args.ShareGrid
            /\ Len(solution_now.EndOfPrddvda_fxd) = N
            /\ \A i \in 1..N : Len(solution_now.EndOfPrddvda_fxd[i]) = S
            /\ \A f \in {solution_now.cFuncFxd, solution_now.dvdsFuncFxd} :
                   /\ f.kind = "LinearInterpOnInterp1D"
                   /\ Len(f.xInterpolators) = S
                   /\ f.y_values = args.ShareGrid
            /\ \A c \in 1..S :
                   /\ solution_now.cFuncFxd.xInterpolators[c] =
                          cFuncFxdColumn(aNrmGrid, EndOfPrddvdaNvrs, c)
                   /\ solution_now.dvdsFuncFxd.xInterpolators[c] =
                          dvdsFuncFxdColumn(aNrmGrid, EndOfPrddvdaNvrs, EndOfPrddvds, c)

\* a returned record of the continuous branch with more asset points than
\* share points, so that rows and columns cannot be confused
C21_Witness ==
    /\ solution_now.returned
    /\ ~args.DiscreteShareBool
    /\ Len(aNrmGrid) = 3
    /\ Len(args.ShareGrid) = 2
    /\ Len(solution_now.Share_adj) = 3
    /\ Len(Share_now) = 4
    /\ Len(solution_now.EndOfPrddvda_fxd) = 3

\* the resources of asset point i on share column c: a_i + c_ic
mNrmFxdAt(i, c) == FAdd(aNrmGrid[i], EndOfPrddvdaNvrs[i][c])

\* C22: on every share column c the fixed-share consumption function is the
\* piecewise-linear function through (0,0) and the points (a_i + c_ic, c_ic),
\* so that cFuncFxd(a_i + c_ic, ShareGrid[c]) = c_ic; the marginal-share-value
\* function of the column is EndOfPrddvds[i,c] at the same resources; and
\* ShareFuncFxd(m, s) = s.
C22_FxdFunctionsThroughColumnPoints ==
    fxd # <<>> =>
        /\ \A c \in DOMAIN args.ShareGrid :
               LET cf == fxd.cFuncFxd_by_Share[c]
                   df == fxd.dvdsFuncFxd_by_Share[c]
               IN  /\ cf.x_list = <<R(0)>> \o [i \in DOMAIN aNrmGrid |-> mNrmFxdAt(i, c)]
                   /\ cf.y_list = <<R(0)>> \o [i \in DOMAIN aNrmGrid |-> EndOfPrddvdaNvrs[i][c]]
                   /\ df.x_list = cf.x_list
                   /\ FEq(EvalLinearInterp(cf, R(0)), R(0))
                   /\ \A i \in DOMAIN aNrmGrid :
                          /\ FEq(EvalLinearInterp(cf, mNrmFxdAt(i, c)), EndOfPrddvdaNvrs[i][c])
                          /\ FEq(EvalLinearInterp(df, mNrmFxdAt(i, c)), EndOfPrddvds[i][c])
        /\ solution_now.returned =>
               \A c \in DOMAIN args.ShareGrid, i \in DOMAIN aNrmGrid :
                   /\ FEq(EvalLinearInterpOnInterp1D(solution_now.cFuncFxd, mNrmFxdAt(i, c),
                                                     args.ShareGrid[c]),
                          EndOfPrddvdaNvrs[i][c])
                   /\ FEq(EvalLinearInterpOnInterp1D(solution_now.dvdsFuncFxd, mNrmFxdAt(i, c),
                                                     args.ShareGrid[c]),
                          EndOfPrddvds[i][c])
                   /\ \A m \in ProbePoints :
                          EvalTrivial(solution_now.ShareFuncFxd, <<m, args.ShareGrid[c]>>) =
                              args.ShareGrid[c]

\* a returned record whose share columns differ in consumption: on three
\* shares and three asset points, the middle column passes through its own
\* points
C22_Witness ==
    /\ solution_now.returned
    /\ Len(args.ShareGrid) = 3
    /\ Len(aNrmGrid) = 3
    /\ EndOfPrddvdaNvrs[2][2] # EndOfPrddvdaNvrs[2][1]
    /\ EndOfPrddvdaNvrs[2][2] # EndOfPrddvdaNvrs[2][3]
    /\ FEq(EvalLinearInterpOnInterp1D(solution_now.cFuncFxd, mNrmFxdAt(2, 2), Half),
           EndOfPrddvdaNvrs[2][2])

\* C23 (as claimed): in a returned record EndOfPrddvda_fxd[i][c] is the
\* end-of-period marginal value EndOfPrddvda[i][c] the call computed, and
\* EndOfPrddvda_adj[i] is the marginal utility of the consumption chosen at
\* asset point i.
C23_StoredMarginalValues ==
    solution_now.returned =>
        \A i \in DOMAIN aNrmGrid :
            /\ solution_now.EndOfPrddvda_adj[i] = utilityP(cAt(i), args.CRRA)
            /\ \A c \in DOMAIN args.ShareGrid :
                   solution_now.EndOfPrddvda_fxd[i][c] = EndOfPrddvda[i][c]

\* the record of the cycle period agent k is in
RecordOf(a, k) == a.solution[a.t_cycle[k] + 1]

\* C24 (as claimed): every step of get_controls leaves an agent whose Adjust
\* draw is false with the share the agent held before the call, and sets the
\* agent's consumption to cFuncFxd at the agent's resources and that share.
C24_FxdAgentKeepsHeldShare ==
    [][pc' = "controls" =>
          \A k \in Agents :
              ~self.shocks.Adjust[k] =>
                  /\ FEq(self'.controls.Share[k], self.controls.Share[k])
                  /\ FEq(self'.controls.cNrm[k],
                         Eval2D(RecordOf(self, k).cFuncFxd, self.state_now.mNrm[k],
                                self.controls.Share[k]))]_vars

\* C25 (as claimed): after get_controls every agent has been evaluated once,
\* with one regime of the record of the agent's own cycle period: the Adj
\* functions at the agent's resources when the Adjust draw is true, the Fxd
\* functions when it is false; and no agent's consumption is NaN, the value
\* the arrays start from.
C25_OneRegimeOfOwnPeriod ==
    (self.constructed /\ pc = "controls") =>
        \A k \in Agents :
            LET t == self.t_cycle[k]
                m == self.state_now.mNrm[k]
            IN  /\ self.shocks.Adjust[k] =>
                      /\ self.used[k] = {<<t, "Adj">>}
                      /\ self.controls.cNrm[k] = Eval1D(RecordOf(self, k).cFuncAdj, m)
                      /\ self.controls.Share[k] = Eval1D(RecordOf(self, k).ShareFuncAdj, m)
                /\ ~self.shocks.Adjust[k] => self.used[k] = {<<t, "Fxd">>}
                /\ ~IsNaN(self.controls.cNrm[k])

\* C25, the part that does not rest on the share passed to the Fxd functions
C25_OneEvaluationPerAgent ==
    (self.constructed /\ pc = "controls") =>
        \A k \in Agents :
            /\ Cardinality(self.used[k]) = 1
            /\ \A u \in self.used[k] :
                   /\ u[1] = self.t_cycle[k]
                   /\ u[2] = IF self.shocks.Adjust[k] THEN "Adj" ELSE "Fxd"
            /\ self.shocks.Adjust[k] => ~IsNaN(self.controls.cNrm[k])

\* C26: a step of sim_birth sets the share to 0 and the Adjust flag to false
\* for the agents of which_agents and leaves the share and the Adjust flag of
\* every other agent as they were; a step of initialize_sim leaves every
\* agent with share 0.
C26_BirthResetsOnlyTheBorn ==
    [][/\ pc' = "born" =>
             \A k \in Agents :
                 IF k \in which_agents'
                 THEN /\ self'.controls.Share[k] = R(0)
                      /\ self'.shocks.Adjust[k] = FALSE
                 ELSE /\ self'.controls.Share[k] = self.controls.Share[k]
                      /\ self'.shocks.Adjust[k] = self.shocks.Adjust[k]
       /\ pc' = "initialized" =>
             \A k \in Agents : self'.controls.Share[k] = R(0)]_vars

\* sim_birth has been called for agent 1 alone while agent 2 held a share it
\* had chosen and a true Adjust flag
C26_Witness ==
    /\ pc = "born"
    /\ which_agents = {1}
    /\ self.controls.Share[1] = R(0)
    /\ ~self.shocks.Adjust[1]
    /\ self.controls.Share[2] = <<3, 4>>
    /\ self.shocks.Adjust[2]

\* the marginal value functions of a record are those of its own consumption
\* functions, with the given CRRA
OwnMarginalValues(rec, CRRA) ==
    /\ rec.vPfuncAdj.kind = "MargValueFuncCRRA"
    /\ rec.dvdmFuncFxd.kind = "MargValueFuncCRRA"
    /\ rec.vPfuncAdj.cFunc = rec.cFuncAdj
    /\ rec.dvdmFuncFxd.cFunc = rec.cFuncFxd
    /\ \A m \in ProbePoints :
           /\ EvalMargValue1D(rec.vPfuncAdj, m) = utilityP(Eval1D(rec.cFuncAdj, m), CRRA)
           /\ \A sh \in ProbePoints \ {R(3)} :
                  EvalMargValue2D(rec.dvdmFuncFxd, m, sh) =
                      utilityP(Eval2D(rec.cFuncFxd, m, sh), CRRA)

\* C27: in the terminal record and in every record the solver returns,
\* vPfuncAdj(m) = u'(cFuncAdj(m)) and dvdmFuncFxd(m, s) = u'(cFuncFxd(m, s)).
C27_MarginalValueOfOwnConsumption ==
    /\ solution_now.returned => OwnMarginalValues(solution_now, args.CRRA)
    /\ (self.constructed /\ self.solution_terminal # None) =>
           OwnMarginalValues(self.solution_terminal, self.CRRA)

\* a returned record whose marginal value at resources 1 is finite and is not
\* the marginal utility of resources 1 itself
C27_Witness ==
    /\ solution_now.returned
    /\ args.AdjustPrb = Half
    /\ IsFinite(EvalMargValue1D(solution_now.vPfuncAdj, R(1)))
    /\ EvalMargValue1D(solution_now.vPfuncAdj, R(1)) # utilityP(R(1), args.CRRA)
    /\ IsFinite(EvalMargValue2D(solution_now.dvdmFuncFxd, R(1), Half))

\* C28 (as claimed): when value functions are requested, building them never
\* fails, whatever the sizes of the share grid and of the asset grid, and the
\* derivative at zero resources of the fixed-share interpolant of share
\* column c is the entry of the first grid point of column c, as for the
\* adjustable-share interpolant.
C28_FxdValueColumnOwnData ==
    args.vFuncBool =>
        /\ error # "IndexError: index is out of bounds for axis 0"
        /\ vfuncs # <<>> =>
              /\ vfuncs.vFuncAdj_now.dfdx0 = <<1>>
              /\ \A c \in DOMAIN args.ShareGrid :
                     vfuncs.vFuncFxd_now.dfdx0[c] = <<1, c>>

\* C29: along a backward induction with the same vFuncBool and AdjustPrb in
\* every period, no slot of solution_next that holds the null-function
\* marker is evaluated; the value functions of solution_next are evaluated
\* only when vFuncBool is true and its Fxd functions only when AdjustPrb < 1.
C29_NullSlotsNeverEvaluated ==
    /\ \A slot \in evaluated : args.solution_next[slot] # NullFunc
    /\ evaluated \cap {"vFuncAdj", "vFuncFxd"} # {} => args.vFuncBool
    /\ evaluated \cap FxdSlots # {} => FLt(args.AdjustPrb, R(1))

\* the second period of an induction without value functions has returned:
\* solution_next held the marker in both value slots, and the Fxd marginal
\* value functions were evaluated
C29_Witness ==
    /\ pc = "returned"
    /\ ~args.vFuncBool
    /\ args.solution_next.vFuncAdj = NullFunc
    /\ args.solution_next.vFuncFxd = NullFunc
    /\ args.AdjustPrb = Half
    /\ evaluated = {"vPfuncAdj", "dvdmFuncFxd", "dvdsFuncFxd"}

=============================================================================
